---- MODULE Spec2Model ----
(***************************************************************************)
(* Tiered model routing of the local-agent repository:                     *)
(*   SmartModelRouter   (local-ai-service/models/smart_router.py)          *)
(*   OllamaRouter       (zero-cost-ai-marketplace/backend/services)        *)
(*   MultiAgentRouter + BulletproofClient (same package)                   *)
(* Strings that the code inspects (prompts, tiers, keywords) are sequences *)
(* of one-character strings, so lower(), split() and the `in` substring    *)
(* test are computed, not assumed.                                         *)
(***************************************************************************)
EXTENDS Integers, Sequences, FiniteSets, TLC

(* ---------------------------- bounds ----------------------------------- *)
\* generated prompts are at most this many vocabulary words long
MaxPromptWords == 2
\* padded prompts have between 50 - PadSlack and 50 + PadSlack words
PadSlack == 1
\* number of generate_response calls made in one run
MaxRequests == 2

(* ------------------------ string primitives ---------------------------- *)
\* the upper-case ASCII letters and their lower-case forms
UpperToLower ==
    [A |-> "a", B |-> "b", C |-> "c", D |-> "d", E |-> "e", F |-> "f", G |-> "g", H |-> "h", I |-> "i", J |-> "j", K |-> "k", L |-> "l", M |-> "m", N |-> "n", O |-> "o", P |-> "p", Q |-> "q", R |-> "r", S |-> "s", T |-> "t", U |-> "u", V |-> "v", W |-> "w", X |-> "x", Y |-> "y", Z |-> "z"]

\* str.lower() restricted to ASCII letters
LowerChar(c) ==
    IF c \in DOMAIN UpperToLower THEN UpperToLower[c] ELSE c

Lower(s) ==
    [i \in 1..Len(s) |-> LowerChar(s[i])]

\* Python's `k in s` for strings: k occurs as a contiguous substring of s
Contains(s, k) ==
    \E i \in 0..(Len(s) - Len(k)) : SubSeq(s, i + 1, i + Len(k)) = k

\* any(keyword in s for keyword in kws)
ContainsAny(s, kws) ==
    \E k \in kws : Contains(s, k)

Whitespace ==
    {" ", "\t", "\n"}

\* len(s.split()): the number of maximal runs of non-whitespace characters
WordCount(s) ==
    Cardinality({i \in 1..Len(s) :
        /\ s[i] \notin Whitespace
        /\ (i = 1 \/ s[i - 1] \in Whitespace)})

\* " ".join(ws)
RECURSIVE Join(_)
Join(ws) ==
    IF Len(ws) = 0 THEN <<>>
    ELSE IF Len(ws) = 1 THEN ws[1]
    ELSE ws[1] \o <<" ">> \o Join(Tail(ws))

\* the word w repeated n times, separated by single spaces
RECURSIVE Repeat(_, _)
Repeat(w, n) ==
    IF n = 0 THEN <<>>
    ELSE IF n = 1 THEN w
    ELSE w \o <<" ">> \o Repeat(w, n - 1)

(* --------------------------- inputs ------------------------------------ *)
Vocabulary ==
    { <<"H", "i">>,
      <<"A", "n", "a", "l", "y", "z", "e">>,
      <<"b", "u", "s", "i", "n", "e", "s", "s">>,
      <<"s", "t", "r", "a", "t", "e", "g", "y">>,
      <<"p", "l", "a", "n">> }

\* the prompts of local-ai-service/tests/comprehensive_tests.py
TestPrompts ==
    { <<"H", "e", "l", "l", "o", ",", " ", "h", "o", "w", " ", "a", "r", "e", " ", "y", "o", "u", "?">>,
      <<"W", "h", "a", "t", " ", "i", "s", " ", "P", "y", "t", "h", "o", "n", "?">>,
      <<"Q", "u", "i", "c", "k", " ", "s", "u", "m", "m", "a", "r", "y", " ", "p", "l", "e", "a", "s", "e">>,
      <<"H", "i", " ", "t", "h", "e", "r", "e">>,
      <<"C", "r", "e", "a", "t", "e", " ", "a", " ", "P", "y", "t", "h", "o", "n", " ", "c", "l", "a", "s", "s", " ", "f", "o", "r", " ", "W", "h", "a", "t", "s", "A", "p", "p", " ", "B", "u", "s", "i", "n", "e", "s", "s", " ", "a", "u", "t", "o", "m", "a", "t", "i", "o", "n">>,
      <<"D", "e", "s", "i", "g", "n", " ", "a", " ", "s", "y", "s", "t", "e", "m", " ", "a", "r", "c", "h", "i", "t", "e", "c", "t", "u", "r", "e", " ", "f", "o", "r", " ", "e", "n", "t", "e", "r", "p", "r", "i", "s", "e", " ", "A", "I">>,
      <<"A", "n", "a", "l", "y", "z", "e", " ", "t", "h", "e", " ", "c", "o", "m", "p", "e", "t", "i", "t", "i", "v", "e", " ", "l", "a", "n", "d", "s", "c", "a", "p", "e", " ", "f", "o", "r", " ", "A", "I", " ", "m", "a", "r", "k", "e", "t", "p", "l", "a", "c", "e", "s">>,
      <<"I", "m", "p", "l", "e", "m", "e", "n", "t", " ", "a", " ", "F", "a", "s", "t", "A", "P", "I", " ", "s", "e", "r", "v", "i", "c", "e", " ", "w", "i", "t", "h", " ", "d", "a", "t", "a", "b", "a", "s", "e", " ", "i", "n", "t", "e", "g", "r", "a", "t", "i", "o", "n">>,
      <<"H", "e", "l", "l", "o">>,
      <<"C", "r", "e", "a", "t", "e", " ", "A", "P", "I">>,
      <<"W", "h", "a", "t", " ", "i", "s", " ", "A", "I", "?">> }

\* the prompts of backend/tests/integration_test.py
IntegrationPrompts ==
    { <<"H", "e", "l", "l", "o">>,
      <<"H", "i">>,
      <<"W", "r", "i", "t", "e", " ", "c", "o", "m", "p", "l", "e", "x", " ", "P", "y", "t", "h", "o", "n", " ", "c", "o", "d", "e">>,
      <<"T", "a", "s", "k">> }

BusinessPlanPrompt == <<"C", "r", "e", "a", "t", "e", " ", "a", " ", "b", "u", "s", "i", "n", "e", "s", "s", " ", "p", "l", "a", "n">>

PadWord == <<"h", "i">>

PlainWord == <<"o", "k">>

\* word-count threshold of analyze_task_complexity
LongPromptWords == 50

GeneratedPrompts ==
    {Join(ws) : ws \in UNION {[1..n -> Vocabulary] : n \in 0..MaxPromptWords}}

PaddedPrompts ==
    {Repeat(w, n) : w \in {PadWord, PlainWord},
                    n \in (LongPromptWords - PadSlack)..(LongPromptWords + PadSlack)}

Prompts ==
    GeneratedPrompts \cup TestPrompts \cup IntegrationPrompts
        \cup {BusinessPlanPrompt} \cup PaddedPrompts

BASIC == <<"b", "a", "s", "i", "c">>

PREMIUM == <<"p", "r", "e", "m", "i", "u", "m">>

ENTERPRISE_TIER == <<"e", "n", "t", "e", "r", "p", "r", "i", "s", "e">>

ENTERPRISE_UPPER == <<"E", "n", "t", "e", "r", "p", "r", "i", "s", "e">>

PREMIUM_UPPER == <<"P", "R", "E", "M", "I", "U", "M">>

INVALID == <<"i", "n", "v", "a", "l", "i", "d">>

\* the empty tier stands for every falsy tier (None and "")
NoTier == <<>>

Tiers ==
    {BASIC, PREMIUM, ENTERPRISE_TIER, ENTERPRISE_UPPER, PREMIUM_UPPER, INVALID, NoTier}

(* ------------------- smart_router.py: enums ---------------------------- *)
LIGHTWEIGHT == "llama3.2:3b"

HEAVYWEIGHT == "gpt-oss:20b"

ModelType ==
    {LIGHTWEIGHT, HEAVYWEIGHT}

TaskComplexity ==
    {"SIMPLE", "MEDIUM", "COMPLEX", "ENTERPRISE"}

(* ------------- SmartModelRouter.analyze_task_complexity ---------------- *)
enterprise_keywords ==
    { <<"c", "r", "e", "a", "t", "e", " ", "p", "y", "t", "h", "o", "n", " ", "c", "l", "a", "s", "s">>,
       <<"b", "u", "i", "l", "d", " ", "a", "p", "i">>,
       <<"f", "a", "s", "t", "a", "p", "i">>,
       <<"d", "a", "t", "a", "b", "a", "s", "e">>,
       <<"a", "r", "c", "h", "i", "t", "e", "c", "t", "u", "r", "e">>,
       <<"s", "y", "s", "t", "e", "m", " ", "d", "e", "s", "i", "g", "n">>,
       <<"i", "n", "t", "e", "g", "r", "a", "t", "i", "o", "n">>,
       <<"e", "n", "t", "e", "r", "p", "r", "i", "s", "e">>,
       <<"p", "r", "o", "d", "u", "c", "t", "i", "o", "n", " ", "c", "o", "d", "e">>,
       <<"b", "u", "s", "i", "n", "e", "s", "s", " ", "s", "t", "r", "a", "t", "e", "g", "y">>,
       <<"m", "a", "r", "k", "e", "t", " ", "a", "n", "a", "l", "y", "s", "i", "s">> }

complex_keywords ==
    { <<"a", "n", "a", "l", "y", "z", "e">>,
       <<"d", "e", "s", "i", "g", "n">>,
       <<"d", "e", "v", "e", "l", "o", "p">>,
       <<"i", "m", "p", "l", "e", "m", "e", "n", "t">>,
       <<"a", "r", "c", "h", "i", "t", "e", "c", "t", "u", "r", "e">>,
       <<"a", "l", "g", "o", "r", "i", "t", "h", "m">>,
       <<"o", "p", "t", "i", "m", "i", "z", "a", "t", "i", "o", "n">>,
       <<"i", "n", "t", "e", "g", "r", "a", "t", "i", "o", "n">>,
       <<"f", "r", "a", "m", "e", "w", "o", "r", "k">> }

simple_keywords ==
    { <<"h", "e", "l", "l", "o">>,
       <<"h", "i">>,
       <<"w", "h", "a", "t", " ", "i", "s">>,
       <<"h", "o", "w", " ", "t", "o">>,
       <<"e", "x", "p", "l", "a", "i", "n">>,
       <<"s", "u", "m", "m", "a", "r", "y">>,
       <<"q", "u", "i", "c", "k">>,
       <<"s", "i", "m", "p", "l", "e">>,
       <<"b", "a", "s", "i", "c">>,
       <<"l", "i", "s", "t">> }

\* variant: the simple keywords are tested before the prompt length
analyze_task_complexity_simple_first(prompt) ==
    LET prompt_lower == Lower(prompt)
    IN  IF ContainsAny(prompt_lower, enterprise_keywords) THEN "ENTERPRISE"
        ELSE IF ContainsAny(prompt_lower, complex_keywords) THEN "COMPLEX"
        ELSE IF ContainsAny(prompt_lower, simple_keywords) THEN "SIMPLE"
        ELSE IF WordCount(prompt) > LongPromptWords THEN "COMPLEX"
        ELSE "MEDIUM"

analyze_task_complexity(prompt) ==
    LET prompt_lower == Lower(prompt)
    IN  IF ContainsAny(prompt_lower, enterprise_keywords) THEN "ENTERPRISE"
        ELSE IF ContainsAny(prompt_lower, complex_keywords) THEN "COMPLEX"
        ELSE IF WordCount(prompt) > LongPromptWords THEN "COMPLEX"
        ELSE IF ContainsAny(prompt_lower, simple_keywords) THEN "SIMPLE"
        ELSE "MEDIUM"

(* --------------- SmartModelRouter.select_optimal_model ----------------- *)
\* variant: the enterprise tier is not looked at
select_optimal_model_no_enterprise(complexity, customer_tier) ==
    IF complexity = "ENTERPRISE" THEN HEAVYWEIGHT
    ELSE IF complexity = "COMPLEX" /\ customer_tier = PREMIUM THEN HEAVYWEIGHT
    ELSE IF complexity = "COMPLEX" THEN HEAVYWEIGHT
    ELSE LIGHTWEIGHT

\* variant: a complex task is heavyweight for premium customers only
select_optimal_model_complex_premium_only(complexity, customer_tier) ==
    IF customer_tier = ENTERPRISE_TIER THEN HEAVYWEIGHT
    ELSE IF complexity = "ENTERPRISE" THEN HEAVYWEIGHT
    ELSE IF complexity = "COMPLEX" /\ customer_tier = PREMIUM THEN HEAVYWEIGHT
    ELSE LIGHTWEIGHT

\* variant: premium customers always get the heavyweight model
select_optimal_model_premium_heavy(complexity, customer_tier) ==
    IF customer_tier = ENTERPRISE_TIER THEN HEAVYWEIGHT
    ELSE IF customer_tier = PREMIUM THEN HEAVYWEIGHT
    ELSE IF complexity = "ENTERPRISE" THEN HEAVYWEIGHT
    ELSE IF complexity = "COMPLEX" THEN HEAVYWEIGHT
    ELSE LIGHTWEIGHT

select_optimal_model(complexity, customer_tier) ==
    IF customer_tier = ENTERPRISE_TIER THEN HEAVYWEIGHT
    ELSE IF complexity = "ENTERPRISE" THEN HEAVYWEIGHT
    ELSE IF complexity = "COMPLEX" /\ customer_tier = PREMIUM THEN HEAVYWEIGHT
    ELSE IF complexity = "COMPLEX" THEN HEAVYWEIGHT
    ELSE LIGHTWEIGHT

(* ------------------------- program state ------------------------------- *)
\* local-ai-service: SmartModelRouter behind POST /ai/generate
VARIABLES
    sr_pc,            \* position of the current SmartModelRouter.generate_response
    sr_prompt,        \* its prompt argument
    sr_tier,          \* its customer_tier argument
    sr_complexity,    \* local `complexity`
    sr_model,         \* local `model`
    sr_calls,         \* the _call_ollama calls of this request: model, raised or not
    sr_result,        \* what generate_response returned or raised
    model_stats,      \* SmartModelRouter.model_stats[...]['requests']
    request_counter,  \* business_api.request_counter
    http_response,    \* reply of POST /ai/generate
    responses_returned \* generate_response calls that returned a response so far

sr_vars ==
    <<sr_pc, sr_prompt, sr_tier, sr_complexity, sr_model, sr_calls, sr_result,
      model_stats, request_counter, http_response, responses_returned>>

\* marketplace backend: OllamaRouter
VARIABLES
    or_pc,       \* position of the current OllamaRouter.generate_response
    or_prompt,   \* its prompt argument
    or_tier,     \* its customer_tier argument
    or_model,    \* local `selected_model`
    or_calls,    \* the _call_ollama calls of this request: model and outcome
    or_result,   \* the dictionary it returned
    or_requests  \* number of generate_response calls made so far

or_vars ==
    <<or_pc, or_prompt, or_tier, or_model, or_calls, or_result, or_requests>>

\* marketplace backend: MultiAgentRouter and its BulletproofClient
VARIABLES
    failure_count,    \* BulletproofClient._failure_count
    open_remaining,   \* seconds until _open_until: max(0, _open_until - time.time())
    ag_pc,            \* per request: position in process_request / call_ollama
    ag_tier,          \* per request: the customer_tier argument
    ag_type,          \* per request: local `agent_type`
    ag_model,         \* per request: agent_cfg["model"]
    ag_attempt,       \* per request: loop variable `attempt` of call_ollama
    ag_sleep,         \* per request: seconds left of asyncio.sleep(delay)
    ag_posts,         \* per request: model and system prompt of each POST sent
    ag_outcome,       \* per request: what the server did with the latest POST
    ag_resp,          \* per request: the APIResponse call_ollama returned
    ag_result,        \* per request: the dictionary process_request returned
    ag_requests,      \* number of process_request calls begun so far
    failed_calls,     \* calls that exhausted their retries since the last
                      \* call that returned success (or since construction)
    tripped           \* the circuit was opened and no call has returned
                      \* success since

ag_vars ==
    <<failure_count, open_remaining, ag_pc, ag_tier, ag_type, ag_model,
      ag_attempt, ag_sleep, ag_posts, ag_outcome, ag_resp, ag_result,
      ag_requests, failed_calls, tripped>>

\* marketplace backend: POST /api/chat, its rate-limit log and its database
VARIABLES
    request_log,    \* _REQUEST_LOG: per user id, the age in seconds of each entry
    users,          \* table users: per user id, the stored tier and API key
    conversations,  \* table conversations, in the order of insertion
    billing,        \* table billing, in the order of insertion
    ch_pc,          \* per request: position in chat()
    ch_user,        \* per request: user_id, as api_key_auth resolved it
    ch_tier,        \* per request: local `tier`
    ch_messages,    \* per request: req.messages
    ch_req_tier,    \* per request: req.tier as sent (none: absent)
    ch_prompt,      \* per request: last_user.content
    ch_outcome,     \* per request: what the server did with the POST
    ch_response,    \* per request: the HTTP response
    chat_requests,  \* number of POST /api/chat requests begun so far
    admitted        \* per user id, the age in seconds of each request that
                    \* was let through by the rate limit and went on to the router

ch_vars ==
    <<request_log, users, conversations, billing, ch_pc, ch_user, ch_messages,
      ch_req_tier,
      ch_tier, ch_prompt, ch_outcome, ch_response, chat_requests, admitted>>

vars ==
    <<sr_vars, or_vars, ag_vars, ch_vars>>

NoValue == "none"

(* ------------------ SmartModelRouter._call_ollama ---------------------- *)
\* what the inference server does with one POST /api/generate
BackendOutcomes ==
    {"ok", "no_response_key", "http_error", "timeout", "network_error"}

\* the value returned, or the exception raised, by one _call_ollama
sr_call_ollama(model, outcome) ==
    CASE outcome = "ok" ->
            [raised |-> FALSE, value |-> "generated text"]
      [] outcome = "no_response_key" ->
            [raised |-> FALSE, value |-> "No response generated"]
      [] outcome = "http_error" ->
            [raised |-> TRUE, value |-> "Ollama API error: 500"]
      [] outcome = "timeout" ->
            [raised |-> TRUE, value |-> "Model " \o model \o " timeout after 120s"]
      [] outcome = "network_error" ->
            [raised |-> TRUE, value |-> "Network error: connection refused"]

(* ------------------ SmartModelRouter._update_stats --------------------- *)
update_stats(stats, model) ==
    [stats EXCEPT ![model] = @ + 1]

\* get_performance_report()['total_requests']
total_requests ==
    model_stats[LIGHTWEIGHT] + model_stats[HEAVYWEIGHT]

(* ---------------- SmartModelRouter.generate_response ------------------- *)
\* the other of the two models
\* variant: the retry goes to the model that has just failed
alternative_model_same(model) ==
    model

alternative_model(model) ==
    IF model = HEAVYWEIGHT THEN LIGHTWEIGHT ELSE HEAVYWEIGHT

\* variant: a canned answer is returned when the fallback model fails too
all_models_failed_canned ==
    [kind |-> "return", response |-> "All AI models unavailable",
     model_used |-> "fallback"]

\* how generate_response ends when the fallback model has failed too
all_models_failed ==
    [kind |-> "raise", message |-> "All AI models unavailable"]

\* analyze_task_complexity tabulated over the prompts of the run
complexity_table ==
    [prompt \in Prompts |-> analyze_task_complexity(prompt)]

SRInit ==
    /\ sr_pc = "idle"
    /\ sr_prompt = <<>>
    /\ sr_tier = <<>>
    /\ sr_complexity = NoValue
    /\ sr_model = NoValue
    /\ sr_calls = <<>>
    /\ sr_result = [kind |-> NoValue]
    /\ model_stats = [m \in ModelType |-> 0]
    /\ request_counter = 0
    /\ http_response = [status |-> 0]
    /\ responses_returned = 0

\* POST /ai/generate arrives: the handler counts the request and enters
\* generate_response, which analyses the prompt and selects the model
GenerateResponse_Begin(prompt, customer_tier) ==
    /\ sr_pc \in {"idle", "replied"}
    /\ request_counter < MaxRequests
    /\ request_counter' = request_counter + 1
    /\ sr_prompt' = prompt
    /\ sr_tier' = customer_tier
    /\ sr_complexity' = complexity_table[prompt]
    /\ sr_model' = select_optimal_model(complexity_table[prompt], customer_tier)
    /\ sr_calls' = <<>>
    /\ sr_result' = [kind |-> NoValue]
    /\ http_response' = [status |-> 0]
    /\ sr_pc' = "first_call"
    /\ UNCHANGED <<model_stats, responses_returned, or_vars, ag_vars, ch_vars>>

\* the try block: _call_ollama(model.value, ...), _update_stats, return
GenerateResponse_FirstCall(outcome) ==
    /\ sr_pc = "first_call"
    /\ sr_calls' = Append(sr_calls, [model |-> sr_model,
                                    raised |-> sr_call_ollama(sr_model, outcome).raised])
    /\ LET r == sr_call_ollama(sr_model, outcome)
       IN  IF ~r.raised
           THEN /\ model_stats' = update_stats(model_stats, sr_model)
                /\ sr_result' =
                      [kind |-> "return",
                       response |-> r.value,
                       model_used |-> sr_model,
                       complexity |-> sr_complexity,
                       cost_efficiency |->
                           IF sr_model = LIGHTWEIGHT THEN "MAXIMUM" ELSE "PREMIUM",
                       profit_margin |->
                           IF sr_model = LIGHTWEIGHT THEN "98%" ELSE "95%"]
                /\ responses_returned' = responses_returned + 1
                /\ sr_pc' = "returned"
           ELSE /\ sr_pc' = "fallback_call"
                /\ UNCHANGED <<model_stats, sr_result, responses_returned>>
    /\ UNCHANGED <<sr_prompt, sr_tier, sr_complexity, sr_model, request_counter,
                   http_response, or_vars, ag_vars, ch_vars>>

\* the except block: _call_ollama(alternative.value, ...), return or raise
GenerateResponse_FallbackCall(outcome) ==
    /\ sr_pc = "fallback_call"
    /\ LET alternative == alternative_model(sr_model)
           r == sr_call_ollama(alternative, outcome)
       IN  /\ sr_calls' = Append(sr_calls, [model |-> alternative, raised |-> r.raised])
           /\ IF ~r.raised
              THEN /\ sr_result' =
                         [kind |-> "return",
                          response |-> r.value,
                          model_used |-> alternative \o " (fallback)",
                          complexity |-> sr_complexity,
                          cost_efficiency |-> "FALLBACK",
                          profit_margin |-> "95%"]
                   /\ responses_returned' = responses_returned + 1
                   /\ sr_pc' = "returned"
              ELSE /\ sr_result' = all_models_failed
                   /\ responses_returned' =
                         IF all_models_failed.kind = "raise"
                         THEN responses_returned ELSE responses_returned + 1
                   /\ sr_pc' = IF all_models_failed.kind = "raise"
                               THEN "raised" ELSE "returned"
    /\ UNCHANGED <<sr_prompt, sr_tier, sr_complexity, sr_model, model_stats,
                   request_counter, http_response, or_vars, ag_vars, ch_vars>>

(* ---------------- business_api.generate_ai_response -------------------- *)
\* the handler turns the router's result into the HTTP reply
generate_ai_response_Reply ==
    /\ sr_pc \in {"returned", "raised"}
    /\ http_response' =
          IF sr_result.kind = "return"
          THEN [status |-> 200, success |-> TRUE,
                response |-> sr_result.response,
                model_used |-> sr_result.model_used]
          ELSE [status |-> 500, error |-> "AI generation failed",
                message |-> sr_result.message]
    \* generate_response has returned: its arguments and locals are gone
    /\ sr_prompt' = <<>>
    /\ sr_tier' = <<>>
    /\ sr_complexity' = NoValue
    /\ sr_model' = NoValue
    /\ sr_calls' = <<>>
    /\ sr_result' = [kind |-> NoValue]
    /\ sr_pc' = "replied"
    /\ UNCHANGED <<model_stats, request_counter, responses_returned,
                   or_vars, ag_vars, ch_vars>>

(* ===================== backend/services/ai_router.py =================== *)
lightweight_keywords ==
    { <<"h", "e", "l", "l", "o">>,
      <<"h", "i">>,
      <<"s", "i", "m", "p", "l", "e">>,
      <<"q", "u", "i", "c", "k">>,
      <<"b", "a", "s", "i", "c">>,
      <<"w", "h", "a", "t">>,
      <<"w", "h", "e", "n">>,
      <<"w", "h", "e", "r", "e">> }

heavyweight_keywords ==
    { <<"c", "o", "d", "e">>,
      <<"c", "o", "m", "p", "l", "e", "x">>,
      <<"a", "n", "a", "l", "y", "z", "e">>,
      <<"d", "e", "t", "a", "i", "l", "e", "d">>,
      <<"a", "l", "g", "o", "r", "i", "t", "h", "m">>,
      <<"b", "u", "s", "i", "n", "e", "s", "s">>,
      <<"s", "t", "r", "a", "t", "e", "g", "y">>,
      <<"t", "e", "c", "h", "n", "i", "c", "a", "l">>,
      <<"a", "r", "c", "h", "i", "t", "e", "c", "t", "u", "r", "e">> }

\* sum(1 for keyword in kws if keyword in s)
KeywordScore(s, kws) ==
    Cardinality({k \in kws : Contains(s, k)})

\* word-count threshold of ComplexityAnalyzer.analyze_prompt
word_count_limit == 50

\* ComplexityAnalyzer.analyze_prompt
analyze_prompt(prompt) ==
    LET prompt_lower == Lower(prompt)
        word_count == WordCount(prompt)
        heavyweight_score == KeywordScore(prompt_lower, heavyweight_keywords)
        lightweight_score == KeywordScore(prompt_lower, lightweight_keywords)
    IN  IF word_count > word_count_limit THEN HEAVYWEIGHT
        ELSE IF heavyweight_score > lightweight_score THEN HEAVYWEIGHT
        ELSE LIGHTWEIGHT

\* (customer_tier or "basic").lower()
normalized_tier(customer_tier) ==
    Lower(IF customer_tier = <<>> THEN BASIC ELSE customer_tier)

\* analyze_prompt tabulated over the prompts of the run
analyze_prompt_table ==
    [prompt \in Prompts |-> analyze_prompt(prompt)]

\* the model selection at the head of OllamaRouter.generate_response
\* variant: the prompt is analysed for every tier but enterprise
ollama_select_model_analyses_every_tier(prompt, customer_tier) ==
    IF normalized_tier(customer_tier) = ENTERPRISE_TIER THEN HEAVYWEIGHT
    ELSE analyze_prompt_table[prompt]

ollama_select_model(prompt, customer_tier) ==
    IF normalized_tier(customer_tier) = ENTERPRISE_TIER THEN HEAVYWEIGHT
    ELSE IF normalized_tier(customer_tier) = PREMIUM THEN analyze_prompt_table[prompt]
    ELSE LIGHTWEIGHT

\* what the inference server does with one POST of OllamaRouter._call_ollama
OllamaOutcomes ==
    {"ok", "no_response_key", "http_error", "timeout", "malformed_json"}

\* variant: raise_for_status() is missing, an error status is read as an answer
or_call_ollama_no_raise_for_status(model, outcome) ==
    CASE outcome = "ok" ->
            [raised |-> FALSE, value |-> "generated text"]
      [] outcome \in {"no_response_key", "http_error"} ->
            [raised |-> FALSE, value |-> ""]
      [] outcome = "timeout" ->
            [raised |-> TRUE, value |-> "ReadTimeout"]
      [] outcome = "malformed_json" ->
            [raised |-> TRUE, value |-> "Expecting value: line 1 column 1 (char 0)"]

\* the value returned, or the exception raised, by OllamaRouter._call_ollama
or_call_ollama(model, outcome) ==
    CASE outcome = "ok" ->
            [raised |-> FALSE, value |-> "generated text"]
      [] outcome = "no_response_key" ->
            [raised |-> FALSE, value |-> ""]
      [] outcome = "http_error" ->
            [raised |-> TRUE, value |-> "Server error '500 Internal Server Error'"]
      [] outcome = "timeout" ->
            [raised |-> TRUE, value |-> "ReadTimeout"]
      [] outcome = "malformed_json" ->
            [raised |-> TRUE, value |-> "Expecting value: line 1 column 1 (char 0)"]

fallback_code_keywords ==
    { <<"c", "o", "d", "e">>,
      <<"p", "y", "t", "h", "o", "n">>,
      <<"j", "a", "v", "a", "s", "c", "r", "i", "p", "t">>,
      <<"f", "u", "n", "c", "t", "i", "o", "n">> }

fallback_business_keywords ==
    { <<"b", "u", "s", "i", "n", "e", "s", "s">>,
      <<"r", "e", "v", "e", "n", "u", "e">>,
      <<"p", "r", "o", "f", "i", "t">>,
      <<"s", "t", "r", "a", "t", "e", "g", "y">> }

fallback_technical_keywords ==
    { <<"t", "e", "c", "h", "n", "i", "c", "a", "l">>,
      <<"a", "r", "c", "h", "i", "t", "e", "c", "t", "u", "r", "e">>,
      <<"s", "y", "s", "t", "e", "m">>,
      <<"d", "e", "s", "i", "g", "n">> }

\* the canned text chosen by OllamaRouter._fallback_response
fallback_text(prompt) ==
    LET p == Lower(prompt)
    IN  IF ContainsAny(p, fallback_code_keywords) THEN "fallback:code"
        ELSE IF ContainsAny(p, fallback_business_keywords) THEN "fallback:business"
        ELSE IF ContainsAny(p, fallback_technical_keywords) THEN "fallback:technical"
        ELSE "fallback:default"

\* OllamaRouter._fallback_response
\* variant: the text of the exception is dropped
fallback_response_without_error(prompt, error) ==
    [success |-> FALSE,
     response |-> fallback_text(prompt),
     model_used |-> "fallback",
     complexity |-> "fallback",
     cost_efficiency |-> "100%",
     profit_margin |-> "100%",
     error |-> ""]

fallback_response(prompt, error) ==
    [success |-> FALSE,
     response |-> fallback_text(prompt),
     model_used |-> "fallback",
     complexity |-> "fallback",
     cost_efficiency |-> "100%",
     profit_margin |-> "100%",
     error |-> error]

ORInit ==
    /\ or_pc = "idle"
    /\ or_prompt = <<>>
    /\ or_tier = <<>>
    /\ or_model = NoValue
    /\ or_calls = <<>>
    /\ or_result = [success |-> NoValue]
    /\ or_requests = 0

\* generate_response up to its await: the model is selected from the tier
OllamaRouter_Begin(prompt, customer_tier) ==
    /\ or_pc = "idle"
    /\ or_requests < MaxRequests
    /\ or_requests' = or_requests + 1
    /\ or_prompt' = prompt
    /\ or_tier' = customer_tier
    /\ or_model' = ollama_select_model(prompt, customer_tier)
    /\ or_calls' = <<>>
    /\ or_result' = [success |-> NoValue]
    /\ or_pc' = "call"
    /\ UNCHANGED <<sr_vars, ag_vars, ch_vars>>

\* the try block: _call_ollama answers or raises, the dictionary is returned
OllamaRouter_Call(outcome) ==
    /\ or_pc = "call"
    /\ or_calls' = Append(or_calls, [model |-> or_model, outcome |-> outcome])
    /\ LET r == or_call_ollama(or_model, outcome)
       IN  or_result' =
              IF ~r.raised
              THEN [success |-> TRUE,
                    response |-> r.value,
                    model_used |-> or_model,
                    complexity |-> IF or_model = HEAVYWEIGHT THEN "high" ELSE "low",
                    cost_efficiency |-> IF or_model = LIGHTWEIGHT THEN "98%" ELSE "95%",
                    profit_margin |-> IF or_model = LIGHTWEIGHT THEN "98%" ELSE "95%"]
              ELSE fallback_response(or_prompt, r.value)
    /\ or_pc' = "returned"
    /\ UNCHANGED <<or_prompt, or_tier, or_model, or_requests, sr_vars, ag_vars, ch_vars>>

\* the caller has the dictionary; the arguments and locals are gone
OllamaRouter_Return ==
    /\ or_pc = "returned"
    /\ or_pc' = "idle"
    /\ or_prompt' = <<>>
    /\ or_tier' = <<>>
    /\ or_model' = NoValue
    /\ or_calls' = <<>>
    /\ or_result' = [success |-> NoValue]
    /\ UNCHANGED <<or_requests, sr_vars, ag_vars, ch_vars>>

(* ============ backend/services/multi_agent_system.py =================== *)
(* ============ backend/services/bulletproof_client.py =================== *)
\* concurrent POST /api/chat/agents requests
MaxProcs == 2
\* process_request calls begun in one run of SpecAgents
MaxAgentRequests == 1

Procs ==
    1..MaxProcs

\* BulletproofClient.__init__
max_retries == 3

retry_delay == 1

failure_threshold == 5

open_cooldown_s == 15

\* class AgentType
CHAT == "chat_agent"

CODE == "code_agent"

BUSINESS == "business_agent"

TECHNICAL == "technical_agent"

\* MultiAgentRouter.agents[agent_type]["model"]
agents_model(agent_type) ==
    IF agent_type = CHAT THEN LIGHTWEIGHT ELSE HEAVYWEIGHT

\* self.agents[agent_type]["system"]
agents_system(agent_type) ==
    CASE agent_type = CHAT -> "You are a helpful chat assistant."
      [] agent_type = CODE -> "You are a professional code generator."
      [] agent_type = BUSINESS -> "You are a business strategy expert."
      [] agent_type = TECHNICAL -> "You are a technical architect."

\* what one POST of call_ollama carries: the model and the system prompt at
\* the head of the enhanced prompt
ollama_payload(model, agent_type) ==
    [model |-> model, system |-> agents_system(agent_type)]

code_agent_keywords ==
    { <<"c", "o", "d", "e">>,
      <<"f", "u", "n", "c", "t", "i", "o", "n">>,
      <<"p", "y", "t", "h", "o", "n">>,
      <<"j", "a", "v", "a", "s", "c", "r", "i", "p", "t">>,
      <<"p", "r", "o", "g", "r", "a", "m", "m", "i", "n", "g">> }

business_agent_keywords ==
    { <<"b", "u", "s", "i", "n", "e", "s", "s">>,
      <<"r", "e", "v", "e", "n", "u", "e">>,
      <<"s", "t", "r", "a", "t", "e", "g", "y">>,
      <<"m", "a", "r", "k", "e", "t">>,
      <<"p", "r", "o", "f", "i", "t">> }

technical_agent_keywords ==
    { <<"a", "r", "c", "h", "i", "t", "e", "c", "t", "u", "r", "e">>,
      <<"s", "y", "s", "t", "e", "m">>,
      <<"t", "e", "c", "h", "n", "i", "c", "a", "l">>,
      <<"i", "n", "f", "r", "a", "s", "t", "r", "u", "c", "t", "u", "r", "e">> }

\* MultiAgentRouter.classify_request
classify_request(prompt) ==
    LET p == Lower(prompt)
    IN  IF ContainsAny(p, code_agent_keywords) THEN CODE
        ELSE IF ContainsAny(p, business_agent_keywords) THEN BUSINESS
        ELSE IF ContainsAny(p, technical_agent_keywords) THEN TECHNICAL
        ELSE CHAT

\* the agent_cfg["model"] that process_request passes to call_ollama
\* variant: the model of the agent whatever the tier
process_request_model_of_agent(agent_type, customer_tier) ==
    agents_model(agent_type)

process_request_model(agent_type, customer_tier) ==
    IF normalized_tier(customer_tier) = BASIC
    THEN LIGHTWEIGHT
    ELSE agents_model(agent_type)

\* classify_request tabulated over the prompts of the run
classify_table ==
    [prompt \in Prompts |-> classify_request(prompt)]

\* MultiAgentRouter.generate_fallback_response
\* variant: the canned text of the chat agent for every agent type
generate_fallback_response_always_chat(agent_type) ==
    [success |-> TRUE,
     response |-> "fallback:" \o CHAT,
     agent_used |-> agent_type,
     model_used |-> "fallback",
     status |-> "fallback_active"]

generate_fallback_response(agent_type) ==
    [success |-> TRUE,
     response |-> "fallback:" \o agent_type,
     agent_used |-> agent_type,
     model_used |-> "fallback",
     status |-> "fallback_active"]

\* what the inference server does with one POST of BulletproofClient
ClientOutcomes ==
    {"ok", "no_response_key", "malformed_json", "http_error", "timeout"}

\* status 200 and a body that response.json() parses
Succeeds(outcome) ==
    outcome \in {"ok", "no_response_key"}

\* response.status_code == 200
Status200(outcome) ==
    outcome \in {"ok", "no_response_key", "malformed_json"}

\* result.get("response", "")
response_data(outcome) ==
    IF outcome = "ok" THEN "generated text" ELSE ""

\* the APIResponse of a call that starts with now < _open_until
\* variant: the open circuit is reported like exhausted retries
circuit_open_response_as_unavailable ==
    [success |-> FALSE, data |-> "", error |-> "Service unavailable",
     status_code |-> 500]

circuit_open_response ==
    [success |-> FALSE, data |-> "", error |-> "circuit_open", status_code |-> 503]

\* the APIResponse of the attempt that got status 200
success_response(data) ==
    [success |-> TRUE, data |-> data, error |-> NoValue, status_code |-> 200]

\* the APIResponse after the loop
service_unavailable_response ==
    [success |-> FALSE, data |-> "", error |-> "Service unavailable",
     status_code |-> 500]

\* for attempt in range(self.max_retries): is there an attempt after this one
\* variant: one attempt more
attempts_left_one_more(attempt) ==
    attempt < max_retries

attempts_left(attempt) ==
    attempt < max_retries - 1

\* now < self._open_until, with the time left until _open_until
\* variant: the circuit is still open at _open_until itself
circuit_is_open_inclusive(remaining) ==
    remaining >= 0

circuit_is_open(remaining) ==
    remaining > 0

\* self._failure_count = 0, on status 200
\* variant: a 200 response leaves the count as it is
failure_count_after_200_kept(count) ==
    count

failure_count_after_200(count) ==
    0

\* self._failure_count >= self._failure_threshold
circuit_trips(count) ==
    count >= failure_threshold

\* 2 ** n
RECURSIVE Pow2(_)
Pow2(n) ==
    IF n = 0 THEN 1 ELSE 2 * Pow2(n - 1)

\* delay = self.retry_delay * (2 ** attempt)
\* variant: the same delay before every retry
backoff_delay_constant(attempt) ==
    retry_delay

backoff_delay(attempt) ==
    retry_delay * Pow2(attempt)

\* what process_request makes of the APIResponse
\* variant: a failed call is reported to the caller
process_request_result_reports_failure(resp, agent_type, model) ==
    [success |-> resp.success,
     response |-> resp.data,
     agent_used |-> agent_type,
     model_used |-> model,
     status |-> IF resp.success THEN "operational" ELSE resp.error]

process_request_result(resp, agent_type, model) ==
    IF resp.success
    THEN [success |-> TRUE,
          response |-> resp.data,
          agent_used |-> agent_type,
          model_used |-> model,
          status |-> "operational"]
    ELSE generate_fallback_response(agent_type)

NoResponse ==
    [success |-> NoValue]

AGInit ==
    /\ failure_count = 0
    /\ open_remaining = 0
    /\ ag_pc = [p \in Procs |-> "idle"]
    /\ ag_tier = [p \in Procs |-> <<>>]
    /\ ag_type = [p \in Procs |-> NoValue]
    /\ ag_model = [p \in Procs |-> NoValue]
    /\ ag_attempt = [p \in Procs |-> 0]
    /\ ag_sleep = [p \in Procs |-> 0]
    /\ ag_posts = [p \in Procs |-> <<>>]
    /\ ag_outcome = [p \in Procs |-> NoValue]
    /\ ag_resp = [p \in Procs |-> NoResponse]
    /\ ag_result = [p \in Procs |-> NoResponse]
    /\ ag_requests = 0
    /\ failed_calls = 0
    /\ tripped = FALSE

\* process_request up to the first await of call_ollama: classification, the
\* tier override, the circuit check and, if the circuit is closed, the first POST
ProcessRequest_Begin(p, prompt, customer_tier) ==
    /\ ag_pc[p] = "idle"
    \* request slots are interchangeable: the lowest free one is taken
    /\ \A q \in Procs : q < p => ag_pc[q] # "idle"
    /\ ag_requests' = ag_requests + 1
    /\ ag_tier' = [ag_tier EXCEPT ![p] = customer_tier]
    /\ ag_type' = [ag_type EXCEPT ![p] = classify_table[prompt]]
    /\ ag_model' = [ag_model EXCEPT ![p] =
                       process_request_model(classify_table[prompt], customer_tier)]
    /\ IF circuit_is_open(open_remaining)
       THEN \* now < _open_until: no POST; process_request falls back
            /\ ag_posts' = [ag_posts EXCEPT ![p] = <<>>]
            /\ ag_resp' = [ag_resp EXCEPT ![p] = circuit_open_response]
            /\ ag_result' = [ag_result EXCEPT ![p] =
                  process_request_result(
                      circuit_open_response, classify_table[prompt],
                      process_request_model(classify_table[prompt], customer_tier))]
            /\ ag_pc' = [ag_pc EXCEPT ![p] = "returned"]
       ELSE /\ ag_posts' = [ag_posts EXCEPT ![p] =
                  <<ollama_payload(
                      process_request_model(classify_table[prompt], customer_tier),
                      classify_table[prompt])>>]
            /\ ag_resp' = [ag_resp EXCEPT ![p] = NoResponse]
            /\ ag_result' = [ag_result EXCEPT ![p] = NoResponse]
            /\ ag_pc' = [ag_pc EXCEPT ![p] = "post"]
    /\ ag_outcome' = [ag_outcome EXCEPT ![p] = NoValue]
    /\ UNCHANGED <<failure_count, open_remaining, ag_attempt, ag_sleep,
                   failed_calls, tripped, sr_vars, or_vars, ch_vars>>

\* the POST of the current attempt completes with `outcome`
CallOllama_Reply(p, outcome) ==
    /\ ag_pc[p] = "post"
    /\ ag_outcome' = [ag_outcome EXCEPT ![p] = outcome]
    /\ IF Succeeds(outcome)
       THEN \* status 200 and a JSON body: success
            /\ failure_count' = failure_count_after_200(failure_count)
            /\ failed_calls' = 0
            /\ tripped' = FALSE
            /\ ag_resp' = [ag_resp EXCEPT ![p] =
                              success_response(response_data(outcome))]
            /\ ag_result' = [ag_result EXCEPT ![p] =
                  process_request_result(success_response(response_data(outcome)),
                                         ag_type[p], ag_model[p])]
            /\ ag_pc' = [ag_pc EXCEPT ![p] = "returned"]
            /\ ag_attempt' = [ag_attempt EXCEPT ![p] = 0]
            /\ UNCHANGED <<open_remaining, ag_sleep>>
       ELSE IF attempts_left(ag_attempt[p])
       THEN \* failed attempt, not the last: back off
            \* (a 200 whose body is no JSON has reset the count before json() raised)
            /\ failure_count' = IF Status200(outcome)
                                 THEN failure_count_after_200(failure_count)
                                 ELSE failure_count
            /\ ag_sleep' = [ag_sleep EXCEPT ![p] = backoff_delay(ag_attempt[p])]
            /\ ag_pc' = [ag_pc EXCEPT ![p] = "sleep"]
            /\ UNCHANGED <<open_remaining, ag_resp, ag_result, ag_attempt,
                           failed_calls, tripped>>
       ELSE \* last attempt failed: count the failure, maybe trip the circuit
            LET count == (IF Status200(outcome)
                          THEN failure_count_after_200(failure_count)
                          ELSE failure_count) + 1
            IN  /\ failure_count' = count
                /\ failed_calls' = failed_calls + 1
                /\ tripped' = (tripped \/ circuit_trips(count))
                /\ open_remaining' = IF circuit_trips(count)
                                     THEN open_cooldown_s
                                     ELSE open_remaining
                /\ ag_resp' = [ag_resp EXCEPT ![p] = service_unavailable_response]
                /\ ag_result' = [ag_result EXCEPT ![p] =
                      process_request_result(service_unavailable_response,
                                             ag_type[p], ag_model[p])]
                /\ ag_pc' = [ag_pc EXCEPT ![p] = "returned"]
                /\ ag_attempt' = [ag_attempt EXCEPT ![p] = 0]
                /\ UNCHANGED ag_sleep
    /\ UNCHANGED <<ag_tier, ag_type, ag_model, ag_posts, ag_requests,
                   sr_vars, or_vars, ch_vars>>

\* asyncio.sleep(delay) is over: the next attempt sends its POST
CallOllama_Retry(p) ==
    /\ ag_pc[p] = "sleep"
    /\ ag_sleep[p] = 0
    /\ ag_attempt' = [ag_attempt EXCEPT ![p] = @ + 1]
    /\ ag_posts' = [ag_posts EXCEPT ![p] =
                       Append(@, ollama_payload(ag_model[p], ag_type[p]))]
    /\ ag_pc' = [ag_pc EXCEPT ![p] = "post"]
    /\ UNCHANGED <<failure_count, open_remaining, ag_tier, ag_type, ag_model,
                   ag_sleep, ag_outcome, ag_resp, ag_result, ag_requests,
                   failed_calls, tripped, sr_vars, or_vars, ch_vars>>

\* the caller has the dictionary; the arguments and locals are gone
ProcessRequest_Return(p) ==
    /\ ag_pc[p] = "returned"
    /\ ag_pc' = [ag_pc EXCEPT ![p] = "idle"]
    /\ ag_tier' = [ag_tier EXCEPT ![p] = <<>>]
    /\ ag_type' = [ag_type EXCEPT ![p] = NoValue]
    /\ ag_model' = [ag_model EXCEPT ![p] = NoValue]
    /\ ag_posts' = [ag_posts EXCEPT ![p] = <<>>]
    /\ ag_outcome' = [ag_outcome EXCEPT ![p] = NoValue]
    /\ ag_resp' = [ag_resp EXCEPT ![p] = NoResponse]
    /\ ag_result' = [ag_result EXCEPT ![p] = NoResponse]
    /\ UNCHANGED <<failure_count, open_remaining, ag_attempt, ag_sleep, ag_requests,
                   failed_calls, tripped, sr_vars, or_vars, ch_vars>>

\* one second passes: every running sleep and the cooldown get one second
\* shorter (with nothing of the kind running, the passing of time changes nothing)
Tick ==
    /\ open_remaining > 0 \/ \E p \in Procs : ag_sleep[p] > 0
    /\ open_remaining' = IF open_remaining > 0 THEN open_remaining - 1 ELSE 0
    /\ ag_sleep' = [p \in Procs |-> IF ag_sleep[p] > 0 THEN ag_sleep[p] - 1 ELSE 0]
    /\ UNCHANGED <<failure_count, ag_pc, ag_tier, ag_type, ag_model, ag_attempt,
                   ag_posts, ag_outcome, ag_resp, ag_result, ag_requests,
                   failed_calls, tripped, sr_vars, or_vars, ch_vars>>

(* ============ backend/utils/response_cleaner.py ======================== *)
\* the literal heads of ResponseCleaner.sympathy_patterns; every pattern is
\* head + ".*?[.!]", matched with re.IGNORECASE
sympathy_patterns ==
    << <<"I", " ", "u", "n", "d", "e", "r", "s", "t", "a", "n", "d">>,
       <<"I", "'", "m", " ", "s", "o", "r", "r", "y">>,
       <<"I", " ", "h", "o", "p", "e">>,
       <<"P", "l", "e", "a", "s", "e", " ", "l", "e", "t", " ", "m", "e", " ", "k", "n", "o",
      "w">>,
       <<"T", "h", "a", "n", "k", " ", "y", "o", "u">>,
       <<"I", " ", "a", "p", "p", "r", "e", "c", "i", "a", "t", "e">>,
       <<"I", "'", "m", " ", "h", "a", "p", "p", "y">>,
       <<"I", "'", "d", " ", "b", "e", " ", "g", "l", "a", "d">>,
       <<"F", "e", "e", "l", " ", "f", "r", "e", "e">>,
       <<"D", "o", "n", "'", "t", " ", "h", "e", "s", "i", "t", "a", "t", "e">> >>

\* [.!]
SentenceEnd ==
    {".", "!"}

\* the head matches at position i of s, whatever the case of the letters
HeadAt(s, i, head) ==
    /\ i + Len(head) - 1 <= Len(s)
    /\ \A k \in 1..Len(head) : LowerChar(s[i + k - 1]) = LowerChar(head[k])

\* .*?[.!] from position j: the position of the first "." or "!" that is reached
\* without crossing a newline (the dot matches no newline); 0 if there is none
SentenceEndFrom(s, j) ==
    LET stops == {t \in j..Len(s) : s[t] \in SentenceEnd \cup {"\n"}}
        first == CHOOSE t \in stops : \A u \in stops : t <= u
    IN  IF stops = {} THEN 0
        ELSE IF s[first] = "\n" THEN 0
        ELSE first

\* the positions that a match of head + ".*?[.!]" starting at i covers
MatchAt(s, i, head) ==
    IF HeadAt(s, i, head) /\ SentenceEndFrom(s, i + Len(head)) > 0
    THEN i..SentenceEndFrom(s, i + Len(head))
    ELSE {}

\* the positions that the matches found by re.sub cover. re.sub scans from the
\* left and skips the matches that start inside an earlier one; such a match
\* ends where the earlier one ends, so it covers nothing more
Matched(s, head) ==
    UNION {MatchAt(s, i, head) : i \in 1..Len(s)}

\* s without the characters at the given positions
Without(s, positions) ==
    LET numbered == [i \in 1..Len(s) |-> <<i, s[i]>>]
        kept == SelectSeq(numbered, LAMBDA c : c[1] \notin positions)
    IN  [n \in 1..Len(kept) |-> kept[n][2]]

\* re.sub(head + ".*?[.!]", "", s, flags=re.IGNORECASE)
sub_pattern(s, head) ==
    Without(s, Matched(s, head))

\* for pattern in self.sympathy_patterns: cleaned = re.sub(pattern, "", cleaned)
RECURSIVE sub_patterns(_, _)
sub_patterns(s, k) ==
    IF k > Len(sympathy_patterns) THEN s
    ELSE sub_patterns(sub_pattern(s, sympathy_patterns[k]), k + 1)

\* re.sub(r"\s+", " ", s): of every run of white space the first character
\* stays, as a blank
sub_whitespace(s) ==
    LET blanked == [i \in 1..Len(s) |-> IF s[i] \in Whitespace THEN " " ELSE s[i]]
    IN  Without(blanked, {i \in 2..Len(s) : s[i] \in Whitespace /\ s[i - 1] \in Whitespace})

\* str.strip()
strip(s) ==
    LET inked == {i \in 1..Len(s) : s[i] \notin Whitespace}
    IN  IF inked = {} THEN <<>>
        ELSE SubSeq(s, CHOOSE i \in inked : \A j \in inked : i <= j,
                       CHOOSE i \in inked : \A j \in inked : i >= j)

\* the text that replaces an empty result
COMPLETED ==
    <<"C", "o", "m", "p", "l", "e", "t", "e", "d", ".">>

\* ResponseCleaner.clean_response
\* variant: an empty result is passed on as it is
clean_response_keeps_empty(response) ==
    strip(sub_whitespace(sub_patterns(response, 1)))

clean_response(response) ==
    LET cleaned == strip(sub_whitespace(sub_patterns(response, 1)))
    IN  IF cleaned = <<>> THEN COMPLETED ELSE cleaned

(* ============ backend/api/main.py: POST /api/chat ====================== *)
\* POST /api/chat requests begun in one run
MaxChatRequests == 1

\* _RATE_LIMIT_PER_HOUR: 100 in main.py, scaled down so that a run can fill
\* the window
RATE_LIMIT_PER_HOUR == 3

\* window_start = now - 3600
window_s == 3600

\* settings.default_tier
default_tier ==
    BASIC

\* the user id of a request that carries no API key
DEMO_USER == "demo-user"

\* the user id and the key that create_user hands out
REGISTERED_USER == "user-1"

REGISTERED_KEY == "key-1"

UserIds ==
    {DEMO_USER, REGISTERED_USER}

\* no row of table users
NoRow ==
    [tier |-> NoTier, api_key |-> NoValue]

\* api_key_auth: the user id of the request, or the 401 it is refused with
UNAUTHORIZED == "401"

api_key_auth(api_key) ==
    IF api_key = NoValue THEN DEMO_USER
    ELSE IF \E u \in UserIds : users[u].api_key = api_key
    THEN CHOOSE u \in UserIds : users[u].api_key = api_key
    ELSE UNAUTHORIZED

\* t >= window_start, for an entry of the given age
InWindow(age) ==
    age <= window_s

\* hist[:] = [t for t in hist if t >= window_start]
prune(hist) ==
    SelectSeq(hist, InWindow)

\* len(hist) >= _RATE_LIMIT_PER_HOUR
\* variant: the limit is tested with > instead of >=
rate_limited_off_by_one(hist) ==
    Len(hist) > RATE_LIMIT_PER_HOUR

rate_limited(hist) ==
    Len(hist) >= RATE_LIMIT_PER_HOUR

\* if not req.messages
\* variant: the check of the messages is missing
messages_missing_unchecked(messages) ==
    FALSE

messages_missing(messages) ==
    messages = <<>>

NoMessage ==
    [role |-> NoValue, content |-> <<>>]

\* next((m for m in reversed(req.messages) if m.role == "user"), None)
RECURSIVE last_user(_)
last_user(messages) ==
    IF messages = <<>> THEN NoMessage
    ELSE IF messages[Len(messages)].role = "user" THEN messages[Len(messages)]
    ELSE last_user(SubSeq(messages, 1, Len(messages) - 1))

\* tier = (req.tier or settings.default_tier).lower()
\* variant: the tier of the request body is used as it was sent
request_tier_as_sent(req_tier) ==
    IF req_tier = NoTier THEN default_tier ELSE req_tier

request_tier(req_tier) ==
    Lower(IF req_tier = NoTier THEN default_tier ELSE req_tier)

\* upsert_user: the row of user_id gets the tier, a new row has no API key
\* variant: the tier of an existing row is kept
upsert_user_keeps_tier(table, user_id, tier) ==
    IF table[user_id].tier = NoTier
    THEN [table EXCEPT ![user_id] = [tier |-> tier, api_key |-> @.api_key]]
    ELSE table

upsert_user(table, user_id, tier) ==
    [table EXCEPT ![user_id] = [tier |-> tier, api_key |-> @.api_key]]

\* _PRICING.get(tier.lower(), 0.01), in hundredths
\* variant: every tier at the price of basic
price_flat(tier) ==
    1

price(tier) ==
    IF Lower(tier) = BASIC THEN 1
    ELSE IF Lower(tier) = PREMIUM THEN 2
    ELSE IF Lower(tier) = ENTERPRISE_TIER THEN 5
    ELSE 1

\* the character ` of the code fence, which a string of this module cannot hold
BACKTICK == "^"

\* fallback_responses of OllamaRouter._fallback_response, character by character
CANNED_CODE ==
    <<"I", " ", "c", "a", "n", " ", "h", "e", "l", "p", " ", "y", "o", "u", " ", "w", "i",
      "t", "h", " ", "c", "o", "d", "i", "n", "g", ".", " ", "H", "e", "r", "e", "'", "s",
      " ", "a", " ", "b", "a", "s", "i", "c", " ", "s", "t", "r", "u", "c", "t", "u", "r",
      "e", ":", "\n", "\n", BACKTICK, BACKTICK, BACKTICK, "p", "y", "t", "h", "o", "n", "\n", "#", " ",
      "Y", "o", "u", "r", " ", "c", "o", "d", "e", " ", "h", "e", "r", "e", "\n", "d", "e",
      "f", " ", "s", "o", "l", "u", "t", "i", "o", "n", "(", ")", ":", "\n", " ", " ", " ",
      " ", "p", "a", "s", "s", "\n", BACKTICK, BACKTICK, BACKTICK>>

CANNED_BUSINESS ==
    <<"B", "a", "s", "e", "d", " ", "o", "n", " ", "c", "u", "r", "r", "e", "n", "t", " ",
      "m", "a", "r", "k", "e", "t", " ", "t", "r", "e", "n", "d", "s", ",", " ", "f", "o",
      "c", "u", "s", " ", "o", "n", " ", "a", "c", "q", "u", "i", "s", "i", "t", "i", "o",
      "n", " ", "a", "n", "d", " ", "r", "e", "t", "e", "n", "t", "i", "o", "n", ";", " ",
      "o", "p", "t", "i", "m", "i", "z", "e", " ", "p", "r", "i", "c", "i", "n", "g", " ",
      "a", "n", "d", " ", "m", "a", "r", "g", "i", "n", "s", ".">>

CANNED_TECHNICAL ==
    <<"T", "h", "i", "s", " ", "r", "e", "q", "u", "i", "r", "e", "s", " ", "t", "e", "c",
      "h", "n", "i", "c", "a", "l", " ", "a", "n", "a", "l", "y", "s", "i", "s", ".", " ",
      "I", " ", "c", "a", "n", " ", "p", "r", "o", "v", "i", "d", "e", " ", "d", "e", "t",
      "a", "i", "l", "e", "d", " ", "i", "m", "p", "l", "e", "m", "e", "n", "t", "a", "t",
      "i", "o", "n", " ", "g", "u", "i", "d", "a", "n", "c", "e", ".">>

CANNED_DEFAULT ==
    <<"I", " ", "u", "n", "d", "e", "r", "s", "t", "a", "n", "d", " ", "y", "o", "u", "r",
      " ", "r", "e", "q", "u", "e", "s", "t", ".", " ", "H", "e", "r", "e", "'", "s", " ",
      "a", " ", "c", "o", "m", "p", "r", "e", "h", "e", "n", "s", "i", "v", "e", " ", "r",
      "e", "s", "p", "o", "n", "s", "e", " ", "t", "o", " ", "h", "e", "l", "p", " ", "y",
      "o", "u", " ", "p", "r", "o", "c", "e", "e", "d", ".">>

\* fallback_responses[...] for the key that _fallback_response picks
fallback_responses(key) ==
    CASE key = "fallback:code" -> CANNED_CODE
      [] key = "fallback:business" -> CANNED_BUSINESS
      [] key = "fallback:technical" -> CANNED_TECHNICAL
      [] key = "fallback:default" -> CANNED_DEFAULT

\* what chat() reads from the dictionary of OllamaRouter.generate_response:
\* result.get("response", "") and result.get("model_used", "router")
\* variant: a failed call is reported under the name of the selected model
generate_response_result_names_selected(prompt, customer_tier, outcome, text) ==
    LET selected_model == ollama_select_model(prompt, customer_tier)
        r == or_call_ollama(selected_model, outcome)
    IN  IF ~r.raised
        THEN [response |-> IF outcome = "ok" THEN text ELSE <<>>,
              model_used |-> selected_model]
        ELSE [response |-> fallback_responses(fallback_text(prompt)),
              model_used |-> selected_model]

generate_response_result(prompt, customer_tier, outcome, text) ==
    LET selected_model == ollama_select_model(prompt, customer_tier)
        r == or_call_ollama(selected_model, outcome)
    IN  IF ~r.raised
        THEN [response |-> IF outcome = "ok" THEN text ELSE <<>>,
              model_used |-> selected_model]
        ELSE [response |-> fallback_responses(fallback_text(prompt)),
              model_used |-> fallback_response(prompt, r.value).model_used]

\* texts the inference server answers with: an answer, nothing but phrases
\* that the cleaner strips, nothing but white space, and a mixture
TEXT_ANSWER ==
    <<"P", "a", "r", "i", "s", " ", "i", "s", " ", "t", "h", "e", " ", "c", "a", "p", "i",
      "t", "a", "l", ".">>

TEXT_SYMPATHY ==
    <<"I", " ", "u", "n", "d", "e", "r", "s", "t", "a", "n", "d", ".", " ", "T", "h", "a",
      "n", "k", " ", "y", "o", "u", "!", " ", " ", "I", "'", "m", " ", "S", "o", "r", "r",
      "y", " ", "f", "o", "r", " ", "t", "h", "a", "t", "!">>

TEXT_BLANK ==
    <<" ", "\n", "\t", " ">>

TEXT_MIXED ==
    <<"I", " ", "h", "o", "p", "e", " ", "t", "h", "i", "s", " ", "h", "e", "l", "p", "s",
      "!", "\n", "U", "s", "e", " ", " ", "a", "\t", "l", "i", "s", "t", ".", " ", "F",
      "e", "e", "l", " ", "f", "r", "e", "e", " ", "t", "o", " ", "a", "s", "k">>

ChatTexts ==
    {TEXT_ANSWER, TEXT_SYMPATHY, TEXT_BLANK, TEXT_MIXED}

\* every text that chat() can hand to the cleaner
Contents ==
    {<<>>, CANNED_CODE, CANNED_BUSINESS, CANNED_TECHNICAL, CANNED_DEFAULT}
        \cup ChatTexts

\* clean_response tabulated over these texts
clean_table ==
    [content \in Contents |-> clean_response(content)]

NoHttpResponse ==
    [status |-> 0]

\* raise HTTPException(status_code=..., detail=...)
HTTPException(status_code, detail) ==
    [status |-> status_code, detail |-> detail]

CHInit ==
    /\ request_log = [u \in UserIds |-> <<>>]
    /\ users = [u \in UserIds |-> NoRow]
    /\ conversations = <<>>
    /\ billing = <<>>
    /\ ch_pc = [p \in Procs |-> "idle"]
    /\ ch_user = [p \in Procs |-> NoValue]
    /\ ch_tier = [p \in Procs |-> <<>>]
    /\ ch_messages = [p \in Procs |-> <<>>]
    /\ ch_req_tier = [p \in Procs |-> NoTier]
    /\ ch_prompt = [p \in Procs |-> <<>>]
    /\ ch_outcome = [p \in Procs |-> NoValue]
    /\ ch_response = [p \in Procs |-> NoHttpResponse]
    /\ chat_requests = 0
    /\ admitted = [u \in UserIds |-> <<>>]

\* POST /api/auth/register: create_user inserts the row with tier and API key
Register(tier) ==
    /\ users[REGISTERED_USER].api_key = NoValue
    /\ users' = [users EXCEPT ![REGISTERED_USER] =
                    [tier |-> tier, api_key |-> REGISTERED_KEY]]
    /\ UNCHANGED <<request_log, conversations, billing, ch_pc, ch_user, ch_messages, ch_req_tier,
                   ch_tier, ch_prompt, ch_outcome, ch_response, chat_requests, admitted,
                   sr_vars, or_vars, ag_vars>>

\* chat() up to its await: authentication, the check of the messages, the
\* rate limit and its log, the last user message, the tier, upsert_user
Chat_Begin(p, api_key, messages, req_tier) ==
    /\ ch_pc[p] = "idle"
    \* request slots are interchangeable: the lowest free one is taken
    /\ \A q \in Procs : q < p => ch_pc[q] # "idle"
    /\ chat_requests' = chat_requests + 1
    /\ LET user_id == api_key_auth(api_key)
           hist == IF user_id = UNAUTHORIZED THEN <<>> ELSE prune(request_log[user_id])
           tier == request_tier(req_tier)
           refuse(status_code, detail) ==
               /\ ch_response' = [ch_response EXCEPT ![p] =
                                     HTTPException(status_code, detail)]
               /\ ch_pc' = [ch_pc EXCEPT ![p] = "returned"]
               /\ UNCHANGED <<users, ch_tier, ch_prompt, admitted>>
       IN  /\ ch_user' = [ch_user EXCEPT ![p] = user_id]
           /\ ch_messages' = [ch_messages EXCEPT ![p] = messages]
           /\ ch_req_tier' = [ch_req_tier EXCEPT ![p] = req_tier]
           /\ IF user_id = UNAUTHORIZED
              THEN /\ refuse(401, "Invalid API key")
                   /\ UNCHANGED request_log
              ELSE IF messages_missing(messages)
              THEN /\ refuse(400, "No messages provided")
                   /\ UNCHANGED request_log
              ELSE IF rate_limited(hist)
              THEN /\ refuse(429, "Rate limit exceeded")
                   /\ request_log' = [request_log EXCEPT ![user_id] = hist]
              ELSE IF last_user(messages) = NoMessage
              THEN /\ refuse(400, "No user message found")
                   /\ request_log' = [request_log EXCEPT ![user_id] = Append(hist, 0)]
              ELSE /\ request_log' = [request_log EXCEPT ![user_id] = Append(hist, 0)]
                   /\ admitted' = [admitted EXCEPT ![user_id] = Append(@, 0)]
                   /\ users' = upsert_user(users, user_id, tier)
                   /\ ch_tier' = [ch_tier EXCEPT ![p] = tier]
                   /\ ch_prompt' = [ch_prompt EXCEPT ![p] = last_user(messages).content]
                   /\ ch_response' = [ch_response EXCEPT ![p] = NoHttpResponse]
                   /\ ch_pc' = [ch_pc EXCEPT ![p] = "router"]
    /\ UNCHANGED <<conversations, billing, ch_outcome, sr_vars, or_vars, ag_vars>>

\* the POST of OllamaRouter completes: its dictionary, the cleaner, the two
\* database rows and the 200 response
Chat_Finish(p, outcome, text) ==
    /\ ch_pc[p] = "router"
    /\ LET result == generate_response_result(ch_prompt[p], ch_tier[p], outcome, text)
           content == clean_table[result.response]
           model == result.model_used
           conv_id == Len(conversations) + 1
       IN  /\ conversations' = Append(conversations,
                  [user_id |-> ch_user[p], tier |-> ch_tier[p],
                   prompt |-> ch_prompt[p], response |-> content, model |-> model])
           /\ billing' = Append(billing,
                  [user_id |-> ch_user[p], tier |-> ch_tier[p],
                   amount |-> price(ch_tier[p])])
           /\ ch_response' = [ch_response EXCEPT ![p] =
                  [status |-> 200, content |-> content, model |-> model,
                   tier |-> ch_tier[p], conversation_id |-> conv_id]]
    /\ ch_outcome' = [ch_outcome EXCEPT ![p] = outcome]
    /\ ch_pc' = [ch_pc EXCEPT ![p] = "returned"]
    /\ UNCHANGED <<request_log, users, ch_user, ch_messages, ch_req_tier, ch_tier, ch_prompt,
                   chat_requests,
                   admitted, sr_vars, or_vars, ag_vars>>

\* the client has the response; the arguments and locals are gone
Chat_Return(p) ==
    /\ ch_pc[p] = "returned"
    /\ ch_pc' = [ch_pc EXCEPT ![p] = "idle"]
    /\ ch_user' = [ch_user EXCEPT ![p] = NoValue]
    /\ ch_messages' = [ch_messages EXCEPT ![p] = <<>>]
    /\ ch_req_tier' = [ch_req_tier EXCEPT ![p] = NoTier]
    /\ ch_tier' = [ch_tier EXCEPT ![p] = <<>>]
    /\ ch_prompt' = [ch_prompt EXCEPT ![p] = <<>>]
    /\ ch_outcome' = [ch_outcome EXCEPT ![p] = NoValue]
    /\ ch_response' = [ch_response EXCEPT ![p] = NoHttpResponse]
    /\ UNCHANGED <<request_log, users, conversations, billing, chat_requests,
                   admitted, sr_vars, or_vars, ag_vars>>

\* an age beyond the window: entries that old are all alike
Expired ==
    window_s + 1

\* the age of an entry after `seconds` more seconds
aged(age, seconds) ==
    IF age + seconds > window_s THEN Expired ELSE age + seconds

\* time passes: every entry of the log gets older (with no entry that can
\* still leave the window, the passing of time changes nothing)
ChatTick(seconds) ==
    /\ \E u \in UserIds : \E i \in DOMAIN request_log[u] : request_log[u][i] # Expired
    /\ request_log' = [u \in UserIds |->
          [i \in DOMAIN request_log[u] |-> aged(request_log[u][i], seconds)]]
    /\ admitted' = [u \in UserIds |->
          prune([i \in DOMAIN admitted[u] |-> aged(admitted[u][i], seconds)])]
    /\ UNCHANGED <<users, conversations, billing, ch_pc, ch_user, ch_messages, ch_req_tier,
                   ch_tier, ch_prompt, ch_outcome, ch_response, chat_requests,
                   sr_vars, or_vars, ag_vars>>

(* ========================== specifications ============================= *)
Init ==
    /\ SRInit
    /\ ORInit
    /\ AGInit
    /\ CHInit

\* the two tier routers: they are separate services and share no state, so a
\* run puts its requests to one of them
Next ==
    \/ /\ or_requests = 0
       /\ \E prompt \in Prompts, customer_tier \in Tiers :
             GenerateResponse_Begin(prompt, customer_tier)
    \/ \E outcome \in BackendOutcomes : GenerateResponse_FirstCall(outcome)
    \/ \E outcome \in BackendOutcomes : GenerateResponse_FallbackCall(outcome)
    \/ generate_ai_response_Reply
    \/ /\ request_counter = 0
       /\ \E prompt \in Prompts, customer_tier \in Tiers :
             OllamaRouter_Begin(prompt, customer_tier)
    \/ \E outcome \in OllamaOutcomes : OllamaRouter_Call(outcome)
    \/ OllamaRouter_Return

Spec ==
    Init /\ [][Next]_vars

\* tiers and prompts passed to MultiAgentRouter.process_request
AgentTiers ==
    {BASIC, PREMIUM_UPPER, ENTERPRISE_TIER, NoTier}

AgentPrompts ==
    TestPrompts \cup IntegrationPrompts \cup {BusinessPlanPrompt} \cup {<<>>}

AGNext ==
    \/ /\ ag_requests < MaxAgentRequests
       /\ \E p \in Procs, prompt \in AgentPrompts, customer_tier \in AgentTiers :
             ProcessRequest_Begin(p, prompt, customer_tier)
    \/ \E p \in Procs, outcome \in ClientOutcomes : CallOllama_Reply(p, outcome)
    \/ \E p \in Procs : CallOllama_Retry(p)
    \/ \E p \in Procs : ProcessRequest_Return(p)
    \/ Tick

\* MultiAgentRouter and its BulletproofClient: routing of a few requests
SpecAgents ==
    Init /\ [][AGNext]_vars


\* process_request calls begun in one run of SpecBreaker
MaxBreakerRequests == 6

\* the request repeated in SpecBreaker
BreakerPrompts ==
    {BusinessPlanPrompt}

BreakerTiers ==
    {PREMIUM}

\* what the inference server does in SpecBreaker
BreakerOutcomes ==
    {"ok", "malformed_json", "http_error"}

BreakerNext ==
    \/ /\ ag_requests < MaxBreakerRequests
       /\ \E p \in Procs, prompt \in BreakerPrompts, customer_tier \in BreakerTiers :
             ProcessRequest_Begin(p, prompt, customer_tier)
    \/ \E p \in Procs, outcome \in BreakerOutcomes : CallOllama_Reply(p, outcome)
    \/ \E p \in Procs : CallOllama_Retry(p)
    \/ \E p \in Procs : ProcessRequest_Return(p)
    \/ Tick

\* the circuit breaker of the shared BulletproofClient: one request repeated
\* often enough to trip the circuit, to wait for its cooldown and to call again
SpecBreaker ==
    Init /\ [][BreakerNext]_vars

(* ----------------------- POST /api/chat -------------------------------- *)
\* what the inference server does with the POST of a chat request
ChatOutcomes ==
    {"ok", "no_response_key", "timeout"}

HELLO ==
    <<"H", "e", "l", "l", "o">>

COMPLEX_CODE ==
    <<"W", "r", "i", "t", "e", " ", "c", "o", "m", "p", "l", "e", "x", " ", "P", "y", "t", "h", "o", "n", " ", "c", "o", "d", "e">>

user_message(content) ==
    [role |-> "user", content |-> content]

\* req.messages
ChatMessageLists ==
    { <<>>,
      <<[role |-> "system", content |-> HELLO]>>,
      <<user_message(HELLO)>>,
      <<user_message(COMPLEX_CODE), [role |-> "assistant", content |-> HELLO]>> }

\* req.tier
ChatTiers ==
    {NoTier, BASIC, ENTERPRISE_UPPER, INVALID}

\* the x-api-key header: absent, the key of the registered user, a wrong key
ChatApiKeys ==
    {NoValue, REGISTERED_KEY, "bad-key"}

ChatNext ==
    \/ \E tier \in {BASIC, PREMIUM} : Register(tier)
    \/ /\ chat_requests < MaxChatRequests
       /\ \E p \in Procs, api_key \in ChatApiKeys, messages \in ChatMessageLists,
             req_tier \in ChatTiers :
             Chat_Begin(p, api_key, messages, req_tier)
    \/ \E p \in Procs, outcome \in ChatOutcomes, text \in ChatTexts :
          Chat_Finish(p, outcome, text)
    \/ \E p \in Procs : Chat_Return(p)

\* POST /api/chat with its cleaner and its database: requests of every kind,
\* so few that the rate limit is not reached and the time between them
\* makes no difference
SpecChat ==
    Init /\ [][ChatNext]_vars

(* ------------------- the rate limit of POST /api/chat ------------------ *)
\* requests begun in one run of SpecRateLimit: enough to fill the window and
\* to be turned away
RateRequests ==
    RATE_LIMIT_PER_HOUR + 2

\* seconds between two events
ClockSteps ==
    {window_s \div 2}

RateNext ==
    \/ /\ chat_requests < RateRequests
       /\ \E p \in Procs,
             messages \in {<<>>, <<user_message(HELLO)>>,
                           <<[role |-> "system", content |-> HELLO]>>} :
             Chat_Begin(p, NoValue, messages, NoTier)
    \/ \E p \in Procs : Chat_Finish(p, "ok", TEXT_ANSWER)
    \/ \E p \in Procs : Chat_Return(p)
    \/ \E seconds \in ClockSteps : ChatTick(seconds)

\* the requests of one user, repeated until the limit turns them away
SpecRateLimit ==
    Init /\ [][RateNext]_vars

\* single calls of call_ollama: one prompt, every tier, every outcome
CallNext ==
    \/ /\ ag_requests < MaxAgentRequests
       /\ \E p \in Procs, prompt \in BreakerPrompts, customer_tier \in AgentTiers :
             ProcessRequest_Begin(p, prompt, customer_tier)
    \/ \E p \in Procs, outcome \in ClientOutcomes : CallOllama_Reply(p, outcome)
    \/ \E p \in Procs : CallOllama_Retry(p)
    \/ \E p \in Procs : ProcessRequest_Return(p)
    \/ Tick

\* with the scheduling that the code relies on: a POST comes to an end (httpx
\* gives up after its timeout), time passes, and a call whose sleep is over
\* goes on
SpecCallFair ==
    /\ Init /\ [][CallNext]_vars
    /\ \A p \in Procs :
          /\ WF_vars(\E outcome \in ClientOutcomes : CallOllama_Reply(p, outcome))
          /\ WF_vars(CallOllama_Retry(p))
    /\ WF_vars(Tick)

\* what the inference server does in SpecCooldownFair
CooldownOutcomes ==
    {"ok", "http_error"}

CooldownNext ==
    \/ /\ ag_requests < MaxBreakerRequests
       /\ \E p \in Procs, prompt \in BreakerPrompts, customer_tier \in BreakerTiers :
             ProcessRequest_Begin(p, prompt, customer_tier)
    \/ \E p \in Procs, outcome \in CooldownOutcomes : CallOllama_Reply(p, outcome)
    \/ \E p \in Procs : CallOllama_Retry(p)
    \/ \E p \in Procs : ProcessRequest_Return(p)
    \/ Tick

\* the circuit breaker with the passing of time: a second that can pass does
\* pass (calls need not come to an end for that)
SpecCooldownFair ==
    /\ Init /\ [][CooldownNext]_vars
    /\ WF_vars(Tick)

\* the tiers of SpecFallback
FallbackTiers ==
    {BASIC, PREMIUM}

\* what the inference server does in SpecFallback
FallbackOutcomes ==
    {"ok", "http_error"}

\* one request after the other
FallbackNext ==
    \/ /\ ag_requests < MaxBreakerRequests
       /\ \A q \in Procs : ag_pc[q] = "idle"
       /\ \E p \in Procs, prompt \in AgentPrompts, customer_tier \in FallbackTiers :
             ProcessRequest_Begin(p, prompt, customer_tier)
    \/ \E p \in Procs, outcome \in FallbackOutcomes : CallOllama_Reply(p, outcome)
    \/ \E p \in Procs : CallOllama_Retry(p)
    \/ \E p \in Procs : ProcessRequest_Return(p)
    \/ Tick

\* requests of every agent type against a failing backend, often enough to
\* exhaust retries and to meet the open circuit
SpecFallback ==
    Init /\ [][FallbackNext]_vars

\* number of requests in SpecBilling
BillingRequests ==
    MaxChatRequests + 1

\* req.tier in SpecBilling
BillingTiers ==
    {NoTier, PREMIUM, ENTERPRISE_UPPER}

\* what the inference server does in SpecBilling
BillingOutcomes ==
    {"ok", "timeout"}

BillingNext ==
    \/ /\ chat_requests < BillingRequests
       /\ \E p \in Procs, messages \in ChatMessageLists, req_tier \in BillingTiers :
             Chat_Begin(p, NoValue, messages, req_tier)
    \/ \E p \in Procs, outcome \in BillingOutcomes : Chat_Finish(p, outcome, TEXT_ANSWER)
    \/ \E p \in Procs : Chat_Return(p)

\* several requests of the demo user, one after the other and side by side,
\* with the rows they leave in the database
SpecBilling ==
    Init /\ [][BillingNext]_vars
(* ============================ properties =============================== *)
\* a generate_response call of the SmartModelRouter is in progress or just over
SRActive ==
    sr_pc \in {"first_call", "fallback_call", "returned", "raised"}

\* the inference server did not deliver a usable answer
Failed(outcome) ==
    outcome \in {"http_error", "timeout", "network_error", "malformed_json"}

\* C1: for customer tier "enterprise" both tier routers use gpt-oss:20b,
\* whatever the prompt and its complexity: SmartModelRouter selects HEAVYWEIGHT
\* and calls it first, OllamaRouter issues its backend call with it.
C1_EnterpriseTierGetsHeavyweight ==
    /\ (SRActive /\ sr_tier = ENTERPRISE_TIER) =>
          /\ sr_model = HEAVYWEIGHT
          /\ sr_calls # <<>> => sr_calls[1].model = HEAVYWEIGHT
    /\ (or_pc # "idle" /\ or_tier = ENTERPRISE_TIER) =>
          /\ or_model = HEAVYWEIGHT
          /\ \A i \in DOMAIN or_calls : or_calls[i].model = HEAVYWEIGHT

\* an enterprise request with a simple prompt has called the heavyweight model
C1_Witness ==
    /\ sr_tier = ENTERPRISE_TIER
    /\ sr_complexity = "SIMPLE"
    /\ Len(sr_calls) = 1
    /\ sr_calls[1].model = HEAVYWEIGHT

\* C2: in MultiAgentRouter.process_request a request with customer tier
\* enterprise issues its backend call with gpt-oss:20b for every prompt,
\* whatever agent type the prompt is classified as.
C2_AgentsEnterpriseGetsHeavyweight ==
    \A p \in Procs :
        (ag_pc[p] # "idle" /\ ag_tier[p] = ENTERPRISE_TIER) =>
            /\ ag_model[p] = HEAVYWEIGHT
            /\ \A i \in DOMAIN ag_posts[p] : ag_posts[p][i].model = HEAVYWEIGHT

\* C3: a COMPLEX or ENTERPRISE task gets the heavyweight model for every
\* customer tier string.
C3_ComplexTaskGetsHeavyweight ==
    (SRActive /\ sr_complexity \in {"COMPLEX", "ENTERPRISE"}) =>
        sr_model = HEAVYWEIGHT

\* a complex task of a customer with an unknown tier
C3_Witness ==
    /\ SRActive
    /\ sr_complexity = "COMPLEX"
    /\ sr_tier = INVALID
    /\ sr_model = HEAVYWEIGHT

C5_PremiumGetsHeavyweight ==
    (SRActive /\ sr_tier = PREMIUM) => sr_model = HEAVYWEIGHT

\* C6: the prompt "Create a business plan" gets the heavyweight model for each
\* of the tiers basic, premium and enterprise.
C6_BusinessPlanGetsHeavyweight ==
    (/\ SRActive
     /\ sr_prompt = BusinessPlanPrompt
     /\ sr_tier \in {BASIC, PREMIUM, ENTERPRISE_TIER}) =>
        sr_model = HEAVYWEIGHT

C8_RetriesOtherModelOnce ==
    /\ Len(sr_calls) <= 2
    /\ sr_pc = "first_call" => sr_calls = <<>>
    /\ sr_calls # <<>> => sr_calls[1].model = sr_model
    /\ sr_pc = "fallback_call" => (Len(sr_calls) = 1 /\ sr_calls[1].raised)
    /\ Len(sr_calls) = 2 =>
          /\ sr_calls[1].raised
          /\ sr_calls[2].model \in ModelType \ {sr_calls[1].model}
    /\ sr_pc = "returned" =>
          /\ sr_calls # <<>>
          /\ ~sr_calls[Len(sr_calls)].raised
          /\ Len(sr_calls) = 1 => sr_result.model_used = sr_model
          /\ Len(sr_calls) = 2 =>
                sr_result.model_used = sr_calls[2].model \o " (fallback)"
    /\ sr_pc = "raised" => (Len(sr_calls) = 2 /\ sr_calls[2].raised)

\* the heavyweight model failed and the lightweight model answered
C8_Witness ==
    /\ sr_pc = "returned"
    /\ Len(sr_calls) = 2
    /\ sr_calls[1].model = HEAVYWEIGHT
    /\ sr_result.model_used = "llama3.2:3b (fallback)"

\* C9 as stated: when the selected model and the retry both fail,
\* generate_response returns a canned fallback string, not an error.
C9_BothFailReturnsCannedString ==
    (Len(sr_calls) = 2 /\ sr_calls[2].raised) => sr_result.kind = "return"

\* C9 amended: when the selected model and the retry both fail,
\* generate_response raises "All AI models unavailable" and returns nothing,
\* and POST /ai/generate answers that request with status 500.
C9_BothFailRaises ==
    /\ [](Len(sr_calls) = 2 /\ sr_calls[2].raised =>
            /\ sr_pc = "raised"
            /\ sr_result = [kind |-> "raise", message |-> "All AI models unavailable"])
    /\ [][sr_pc = "raised" =>
            /\ http_response'.status = 500
            /\ http_response'.message = "All AI models unavailable"]_vars

\* both calls of a request have failed
C9_Witness ==
    /\ sr_pc = "raised"
    /\ Len(sr_calls) = 2
    /\ sr_calls[1].raised
    /\ sr_calls[2].raised

\* C10 as stated: OllamaRouter.generate_response answers with the canned
\* fallback only after a retry against the other model has failed as well.
C10_FallbackOnlyAfterRetry ==
    (or_pc = "returned" /\ or_result.model_used = "fallback") =>
        /\ Len(or_calls) = 2
        /\ or_calls[2].model # or_calls[1].model

\* C10 amended: OllamaRouter.generate_response calls the backend once per
\* request, with the selected model; it does not retry, and it returns the
\* canned fallback response exactly when that one call has failed.
C10_FallbackWithoutRetry ==
    or_pc = "returned" =>
        /\ Len(or_calls) = 1
        /\ or_calls[1].model = or_model
        /\ Failed(or_calls[1].outcome) <=> or_result.model_used = "fallback"
        /\ Failed(or_calls[1].outcome) =>
              /\ or_result.success = FALSE
              /\ or_result.response = fallback_text(or_prompt)
        /\ ~Failed(or_calls[1].outcome) =>
              /\ or_result.success = TRUE
              /\ or_result.model_used = or_model

\* the one call of a request failed and the canned fallback was returned
C10_Witness ==
    /\ or_pc = "returned"
    /\ Len(or_calls) = 1
    /\ Failed(or_calls[1].outcome)
    /\ or_result.model_used = "fallback"


(* ------------------------------- C11 ----------------------------------- *)
\* the dictionary a request gets from a client that no other request has
\* touched: a function of its agent type, its model and the server's last reply
fresh_client_result(agent_type, model, outcome) ==
    IF Succeeds(outcome)
    THEN [success |-> TRUE,
          response |-> response_data(outcome),
          agent_used |-> agent_type,
          model_used |-> model,
          status |-> "operational"]
    ELSE [success |-> TRUE,
          response |-> "fallback:" \o agent_type,
          agent_used |-> agent_type,
          model_used |-> "fallback",
          status |-> "fallback_active"]

\* C11 as stated: every request is served as by a fresh client, whatever the
\* requests before it or beside it did: the backend is asked, and the result
\* is the one that follows from the request's own arguments and replies
C11_RequestsAreIndependent ==
    \A p \in Procs :
        ag_pc[p] = "returned" =>
            /\ ag_posts[p] # <<>>
            /\ ag_result[p] = fresh_client_result(ag_type[p], ag_model[p], ag_outcome[p])

\* C11 (amended): requests are independent except through the shared circuit
\* breaker: a request that starts while the circuit is open gets the canned
\* fallback of its agent type without the backend being asked; every other
\* request is served as by a fresh client
C11_IndependentUnlessCircuitOpen ==
    \A p \in Procs :
        ag_pc[p] = "returned" =>
            IF ag_resp[p].error = "circuit_open"
            THEN /\ ag_posts[p] = <<>>
                 /\ ag_outcome[p] = NoValue
                 /\ ag_result[p] =
                       fresh_client_result(ag_type[p], ag_model[p], "timeout")
            ELSE /\ ag_posts[p] # <<>>
                 /\ ag_result[p] =
                       fresh_client_result(ag_type[p], ag_model[p], ag_outcome[p])

\* a request has been turned away by the circuit that earlier requests opened
C11_Witness ==
    \E p \in Procs :
        /\ ag_pc[p] = "returned"
        /\ ag_resp[p].error = "circuit_open"
        /\ failure_count >= failure_threshold
        /\ ag_requests > failure_threshold

(* ------------------------------- C12 ----------------------------------- *)
\* C12: between requests, get_performance_report()['total_requests'] is the
\* number of generate_response calls that returned a response, and the sum of
\* the two models' request counts
C12_TotalRequestsCountsResponses ==
    sr_pc \in {"idle", "replied"} =>
        /\ total_requests = responses_returned
        /\ total_requests = model_stats[LIGHTWEIGHT] + model_stats[HEAVYWEIGHT]

C14_ChatContentNotEmpty ==
    \A p \in Procs :
        (ch_pc[p] = "returned" /\ ch_response[p].status = 200) =>
            /\ ch_response[p].content # <<>>
            /\ \E i \in DOMAIN ch_response[p].content :
                  ch_response[p].content[i] \notin Whitespace

\* the backend answered with a text of which the cleaner left nothing
C14_Witness ==
    \E p \in Procs :
        /\ ch_pc[p] = "returned"
        /\ ch_response[p].status = 200
        /\ ch_outcome[p] = "ok"
        /\ ch_response[p].content = COMPLETED

CallOllamaContract(p, ends_call(_)) ==
    /\ Len(ag_posts[p]) <= max_retries
    /\ ag_pc[p] = "post" => ag_attempt[p] = Len(ag_posts[p]) - 1
    /\ (ag_pc[p] # "post" /\ ag_outcome[p] # NoValue /\ ends_call(ag_outcome[p])) =>
          /\ ag_pc[p] = "returned"
          /\ ag_resp[p] = success_response(response_data(ag_outcome[p]))
    /\ (ag_pc[p] # "post" /\ ag_outcome[p] # NoValue /\ ~ends_call(ag_outcome[p])) =>
          IF Len(ag_posts[p]) < max_retries
          THEN ag_pc[p] = "sleep"
          ELSE /\ ag_pc[p] = "returned"
               /\ ag_resp[p] = [success |-> FALSE, data |-> "",
                                error |-> "Service unavailable", status_code |-> 500]

\* a call that has sent a POST comes to its end
CallOllamaTerminates ==
    \A p \in Procs : (ag_pc[p] = "post") ~> (ag_pc[p] = "returned")

\* C16 as stated: the call ends with success on the first 200 response
C16_SuccessOnFirst200 ==
    /\ [](\A p \in Procs : CallOllamaContract(p, Status200))
    /\ CallOllamaTerminates

\* C16 (amended): the call ends with success on the first 200 response whose
\* body is JSON; a 200 response with another body is a failed attempt like a
\* non-200 response or an exception
C16_SuccessOnFirstParsed200 ==
    /\ [](\A p \in Procs : CallOllamaContract(p, Succeeds))
    /\ CallOllamaTerminates

\* a call has used up its three attempts
C16_Witness ==
    \E p \in Procs :
        /\ ag_pc[p] = "returned"
        /\ Len(ag_posts[p]) = max_retries
        /\ ag_resp[p].status_code = 500

(* ------------------------------- C17 ----------------------------------- *)
\* a step in which a call exhausts its retries (bulletproof_client.py:83)
CallFails ==
    failed_calls' = failed_calls + 1

\* a step that sets _open_until to a later time (bulletproof_client.py:85)
CircuitOpens ==
    open_remaining' > open_remaining

\* C17: the circuit is opened, for open_cooldown_s seconds, exactly by the
\* step in which a call exhausts its retries and the failed calls since the
\* last successful call, or since construction, reach failure_threshold; so
\* with fewer failed calls than that the circuit is not open
C17_CircuitOpensAtFiveFailedCalls ==
    /\ [][(CallFails /\ failed_calls' >= failure_threshold)
             => open_remaining' = open_cooldown_s]_vars
    /\ [][CircuitOpens
             => (CallFails /\ failed_calls' >= failure_threshold)]_vars
    /\ [](failed_calls < failure_threshold => open_remaining = 0)

(* ------------------------------- C18 ----------------------------------- *)
\* a step in which request p calls call_ollama
CallStarts(p) ==
    ag_pc[p] = "idle" /\ ag_pc'[p] # "idle"

\* C18: a call that starts while the circuit is open returns success=False,
\* error "circuit_open", status 503, sends no HTTP request and leaves
\* _failure_count and _open_until as they were
C18_OpenCircuitCallHasNoEffect ==
    [][\A p \in Procs :
          (CallStarts(p) /\ open_remaining > 0) =>
              /\ ag_pc'[p] = "returned"
              /\ ag_resp'[p] = [success |-> FALSE, data |-> "",
                                error |-> "circuit_open", status_code |-> 503]
              /\ ag_posts'[p] = <<>>
              /\ failure_count' = failure_count
              /\ failed_calls' = failed_calls
              /\ open_remaining' = open_remaining]_vars

\* a call was refused by the open circuit
C18_Witness ==
    \E p \in Procs :
        /\ ag_pc[p] = "returned"
        /\ ag_resp[p].error = "circuit_open"
        /\ ag_posts[p] = <<>>
        /\ open_remaining > 0
        /\ failure_count >= failure_threshold

(* ------------------------------- C19 ----------------------------------- *)
\* a step in which attempt k of request p fails
AttemptFails(p, k) ==
    /\ ag_pc[p] = "post" /\ ag_pc'[p] # "post"
    /\ ag_attempt[p] = k /\ ~Succeeds(ag_outcome'[p])

\* C19: after the k-th failed attempt, k = 0, 1, the call waits
\* retry_delay * 2^k seconds, 1 s and then 2 s, before the next attempt, which
\* is not sent earlier; after the final failed attempt it does not wait
C19_ExponentialBackoff ==
    [][\A p \in Procs :
          /\ AttemptFails(p, 0) =>
                (ag_pc'[p] = "sleep" /\ ag_sleep'[p] = 1)
          /\ AttemptFails(p, 1) =>
                (ag_pc'[p] = "sleep" /\ ag_sleep'[p] = 2)
          /\ AttemptFails(p, 2) =>
                (ag_pc'[p] = "returned" /\ ag_sleep'[p] = 0)
          /\ (ag_pc[p] = "sleep" /\ ag_pc'[p] # "sleep") =>
                (ag_sleep[p] = 0 /\ ag_pc'[p] = "post"
                   /\ ag_attempt'[p] = ag_attempt[p] + 1)
          /\ ag_pc[p] = "sleep" => ag_sleep'[p] \in {ag_sleep[p], ag_sleep[p] - 1}]_vars

\* a call waits two seconds after its second failed attempt
C19_Witness ==
    \E p \in Procs :
        /\ ag_pc[p] = "sleep"
        /\ ag_attempt[p] = 1
        /\ ag_sleep[p] = 2
        /\ Len(ag_posts[p]) = 2

(* ------------------------------- C20 ----------------------------------- *)
\* a step in which request p enters the chat handler
ChatStarts(p) ==
    ch_pc[p] = "idle" /\ ch_pc'[p] # "idle"

\* the accepted requests of user u in the window fill the limit
WindowFull(u) ==
    Len(admitted[u]) = RATE_LIMIT_PER_HOUR

or_backend_call ==
    or_call_ollama(or_calls[1].model, or_calls[1].outcome)

\* C21: OllamaRouter.generate_response does not raise on a backend failure:
\* whenever _call_ollama raised (connection error or timeout, error status,
\* malformed JSON) the caller gets a dictionary with success=False,
\* model_used "fallback", complexity "fallback", the text of the exception in
\* error and the canned response chosen from the keywords of the prompt
C21_BackendFailureGivesFallback ==
    (or_pc = "returned" /\ or_backend_call.raised) =>
        /\ or_result.success = FALSE
        /\ or_result.model_used = "fallback"
        /\ or_result.complexity = "fallback"
        /\ or_result.error = or_backend_call.value
        /\ or_result.response = fallback_text(or_prompt)

\* a request for code whose backend answered 200 with a body that is no JSON
\* has returned with the canned text for code
C21_Witness ==
    /\ or_pc = "returned"
    /\ or_calls[1].outcome = "malformed_json"
    /\ or_result.success = FALSE
    /\ or_result.response = "fallback:code"

(* ------------------------------- C22 ----------------------------------- *)
\* the tiers that are neither enterprise nor premium: basic, none, unknown
OtherTiers ==
    {BASIC, NoTier, INVALID}

\* C22: OllamaRouter.generate_response analyses the prompt only for tier
\* premium; for a tier that is neither enterprise nor premium it selects
\* llama3.2:3b whatever the prompt, calls the backend with it and serves the
\* request
C22_OtherTiersGetLightweight ==
    /\ (or_pc # "idle" /\ or_tier \in OtherTiers) =>
          /\ or_model = LIGHTWEIGHT
          /\ \A i \in DOMAIN or_calls : or_calls[i].model = LIGHTWEIGHT
    /\ (or_pc = "returned" /\ or_tier \in OtherTiers) =>
          /\ Len(or_calls) = 1
          /\ or_result.success \in BOOLEAN
          /\ ~or_backend_call.raised =>
                (or_result.success /\ or_result.model_used = LIGHTWEIGHT)
    /\ (or_pc # "idle" /\ or_tier \in {PREMIUM, PREMIUM_UPPER}) =>
          or_model = analyze_prompt(or_prompt)

\* a request of an unknown tier whose prompt the analyser rates heavyweight
\* was served by llama3.2:3b
C22_Witness ==
    /\ or_pc = "returned"
    /\ or_tier = INVALID
    /\ analyze_prompt(or_prompt) = HEAVYWEIGHT
    /\ or_result.success = TRUE
    /\ or_result.model_used = LIGHTWEIGHT

(* ------------------------------- C23 ----------------------------------- *)
\* a step in which the cooldown runs out
CooldownExpires ==
    open_remaining = 1 /\ open_remaining' = 0

\* a step in which a call returns success
CallSucceeds ==
    \E p \in Procs :
        /\ ag_pc[p] = "post" /\ ag_pc'[p] = "returned"
        /\ ag_resp'[p].success = TRUE

\* C23: the end of the cooldown leaves the failure count as it is; once the
\* circuit has tripped, every call that exhausts its retries after the
\* cooldown opens the circuit again for open_cooldown_s seconds, until a call
\* succeeds, which sets the count to 0
C23_FailedCallReopensCircuit ==
    /\ [][CooldownExpires => failure_count' = failure_count]_vars
    /\ [][(tripped /\ open_remaining = 0 /\ CallFails)
             => open_remaining' = open_cooldown_s]_vars
    /\ [][CallSucceeds => (failure_count' = 0 /\ ~tripped')]_vars

(* ------------------------------- C24 ----------------------------------- *)
\* request p is inside call_ollama, past the circuit check
InFlight(p) ==
    ag_pc[p] \in {"post", "sleep"}

\* C24: the open circuit stops only the calls that start while it is open: a
\* call that is past the circuit check goes on with its attempts, is never
\* answered with circuit_open, and when it gets its 200 reply while the
\* circuit is open the count is set to 0 and the circuit stays open for the
\* rest of its cooldown
C24_OpenCircuitSparesRunningCalls ==
    /\ [](\A p \in Procs :
             (ag_pc[p] = "sleep" /\ ag_sleep[p] = 0) => ENABLED CallOllama_Retry(p))
    /\ [][\A p \in Procs :
             (InFlight(p) /\ ag_pc'[p] # ag_pc[p] /\ open_remaining > 0) =>
                 /\ ag_pc[p] = "sleep" =>
                       (ag_pc'[p] = "post" /\ Len(ag_posts'[p]) = Len(ag_posts[p]) + 1)
                 /\ ag_pc'[p] = "returned" => ag_resp'[p].error # "circuit_open"
                 /\ (ag_pc'[p] = "returned" /\ ag_resp'[p].success) =>
                       /\ failure_count' = 0
                       /\ open_remaining' = open_remaining
                 /\ (ag_pc'[p] = "sleep" /\ Status200(ag_outcome'[p])) =>
                       /\ failure_count' = 0
                       /\ open_remaining' = open_remaining]_vars

\* the circuit is open, and a call that was running when it opened has sent
\* all its attempts and returned success since: the count is 0
C24_Witness ==
    \E p \in Procs :
        /\ open_remaining > 0
        /\ ~tripped
        /\ failure_count = 0
        /\ ag_pc[p] = "returned"
        /\ ag_resp[p].success = TRUE
        /\ Len(ag_posts[p]) = max_retries

(* ------------------------------- C25 ----------------------------------- *)
\* C25: an open circuit closes again: the cooldown never exceeds
\* open_cooldown_s seconds and runs down as time passes, and a call that
\* starts when open_cooldown_s seconds or more have passed since the latest
\* trip is not answered with circuit_open but sends its POST
C25_CircuitClosesAgain ==
    /\ [](open_remaining \in 0..open_cooldown_s)
    /\ [][\A p \in Procs :
             (CallStarts(p) /\ open_remaining = 0) =>
                 /\ ag_pc'[p] = "post"
                 /\ Len(ag_posts'[p]) = 1
                 /\ ag_resp'[p] = NoResponse]_vars
    /\ (open_remaining > 0) ~> (open_remaining = 0)

\* after a trip and its cooldown a call is at the backend again
C25_Witness ==
    \E p \in Procs :
        /\ tripped
        /\ open_remaining = 0
        /\ failure_count >= failure_threshold
        /\ ag_pc[p] = "post"

(* ------------------------------- C26 ----------------------------------- *)
AgentTypes ==
    {CHAT, CODE, BUSINESS, TECHNICAL}

\* C26: MultiAgentRouter.process_request never reports a failure: it always
\* returns a dictionary with success=True, and when the backend call failed,
\* by exhausted retries or by the open circuit, the dictionary has model_used
\* "fallback", status "fallback_active", the classified agent type in
\* agent_used and the canned text of that agent type
C26_FailureGivesAgentFallback ==
    \A p \in Procs :
        ag_pc[p] = "returned" =>
            /\ ag_result[p].success = TRUE
            /\ ag_type[p] \in AgentTypes
            /\ ag_result[p].agent_used = ag_type[p]
            /\ ag_resp[p].success = FALSE =>
                  /\ ag_resp[p].error \in {"Service unavailable", "circuit_open"}
                  /\ ag_result[p].model_used = "fallback"
                  /\ ag_result[p].status = "fallback_active"
                  /\ ag_result[p].response = "fallback:" \o ag_type[p]

\* a request for the code agent met the open circuit and got the canned text
\* of the code agent
C26_Witness ==
    \E p \in Procs :
        /\ ag_pc[p] = "returned"
        /\ ag_type[p] = CODE
        /\ ag_resp[p].error = "circuit_open"
        /\ ag_result[p].success = TRUE
        /\ ag_result[p].status = "fallback_active"

(* ------------------------------- C27 ----------------------------------- *)
\* C27: for tier basic, or no tier, MultiAgentRouter.process_request sends
\* every POST with llama3.2:3b whatever the agent type of the prompt, keeps
\* the system prompt of the classified agent, and names that agent in
\* agent_used
C27_BasicTierUsesLightweight ==
    \A p \in Procs :
        (ag_pc[p] # "idle" /\ ag_tier[p] \in {BASIC, NoTier}) =>
            /\ ag_model[p] = LIGHTWEIGHT
            /\ \A i \in DOMAIN ag_posts[p] :
                  /\ ag_posts[p][i].model = LIGHTWEIGHT
                  /\ ag_posts[p][i].system = agents_system(ag_type[p])
            /\ ag_pc[p] = "returned" =>
                  /\ ag_result[p].agent_used = ag_type[p]
                  /\ ag_resp[p].success => ag_result[p].model_used = LIGHTWEIGHT

\* a basic request for the code agent was answered by llama3.2:3b under the
\* system prompt of the code agent
C27_Witness ==
    \E p \in Procs :
        /\ ag_pc[p] = "returned"
        /\ ag_tier[p] = BASIC
        /\ ag_type[p] = CODE
        /\ ag_resp[p].success = TRUE
        /\ ag_posts[p][1] = [model |-> LIGHTWEIGHT,
                             system |-> "You are a professional code generator."]
        /\ ag_result[p].agent_used = CODE

(* ------------------------------- C28 ----------------------------------- *)
\* the prices of _PRICING in hundredths: basic 0.01, premium 0.02,
\* enterprise 0.05
PricedAt(tier, amount) ==
    \/ tier = BASIC /\ amount = 1
    \/ tier = PREMIUM /\ amount = 2
    \/ tier = ENTERPRISE_TIER /\ amount = 5

\* a step in which request p of POST /api/chat gets its response
ChatCompletes(p) ==
    ch_pc[p] # "returned" /\ ch_pc'[p] = "returned"

\* C28: a POST /api/chat that returns 200 inserts one conversation row and
\* one billing row at the price of its tier, with generated and with canned
\* content alike; no other request inserts a row; so there are as many
\* billing rows as conversation rows
C28_OneBillingRowPerConversation ==
    /\ [](/\ Len(billing) = Len(conversations)
          /\ \A i \in DOMAIN billing :
                /\ billing[i].user_id = conversations[i].user_id
                /\ billing[i].tier = conversations[i].tier
                /\ PricedAt(billing[i].tier, billing[i].amount))
    /\ [][\A p \in Procs :
             ChatCompletes(p) =>
                 IF ch_response'[p].status = 200
                 THEN /\ Len(conversations') = Len(conversations) + 1
                      /\ Len(billing') = Len(billing) + 1
                      /\ SubSeq(conversations', 1, Len(conversations)) = conversations
                      /\ SubSeq(billing', 1, Len(billing)) = billing
                      /\ billing'[Len(billing')].tier = ch_tier[p]
                      /\ billing'[Len(billing')].user_id = ch_user[p]
                      /\ ch_response'[p].conversation_id = Len(conversations')
                 ELSE /\ conversations' = conversations
                      /\ billing' = billing]_vars
    /\ [][(\A p \in Procs : ~ChatCompletes(p)) =>
             (conversations' = conversations /\ billing' = billing)]_vars

\* two requests were answered with 200, the second, of tier enterprise, with
\* the canned text after a failed backend call; each left its two rows
C28_Witness ==
    /\ Len(conversations) = 2
    /\ Len(billing) = 2
    /\ conversations[2].model = "fallback"
    /\ billing[2].tier = ENTERPRISE_TIER
    /\ billing[2].amount = 5
    /\ billing[1].amount = 2
    /\ \A p \in Procs : ch_pc[p] = "idle"

(* ------------------------------- C29 ----------------------------------- *)
\* the tier of the request body in lower case, the default tier when absent
SentTier(p) ==
    CASE ch_req_tier[p] = NoTier -> BASIC
      [] ch_req_tier[p] = BASIC -> BASIC
      [] ch_req_tier[p] = ENTERPRISE_UPPER -> ENTERPRISE_TIER
      [] ch_req_tier[p] = INVALID -> INVALID

\* request p of POST /api/chat was answered with 200
Answered(p) ==
    ch_pc[p] = "returned" /\ ch_response[p].status = 200

\* C29: POST /api/chat selects the model and bills by the tier of the request
\* body, the default tier when absent, not by the tier stored for the user:
\* the response, the conversation row and the billing row carry the tier
\* sent, the model is the one of that tier, and the stored tier of the user
\* is overwritten with it
C29_RequestTierDecides ==
    /\ [](\A p \in Procs :
             Answered(p) =>
                 LET row == ch_response[p].conversation_id
                 IN  /\ ch_response[p].tier = SentTier(p)
                     /\ conversations[row].tier = SentTier(p)
                     /\ billing[row].tier = SentTier(p)
                     /\ billing[row].amount =
                           (IF SentTier(p) = ENTERPRISE_TIER THEN 5 ELSE 1)
                     /\ ch_response[p].model \in
                           {IF SentTier(p) = ENTERPRISE_TIER
                            THEN HEAVYWEIGHT ELSE LIGHTWEIGHT, "fallback"})
    /\ [][\A p \in Procs :
             (ChatStarts(p) /\ ch_pc'[p] = "router") =>
                 users'[ch_user'[p]].tier = SentTier(p)']_vars

\* the registered user, whose stored tier was basic or premium, sent tier
\* ENTERPRISE: the answer came from gpt-oss:20b, the billing row has the
\* price of enterprise and the stored tier is enterprise
C29_Witness ==
    \E p \in Procs :
        /\ Answered(p)
        /\ ch_user[p] = REGISTERED_USER
        /\ ch_req_tier[p] = ENTERPRISE_UPPER
        /\ ch_response[p].model = HEAVYWEIGHT
        /\ billing[ch_response[p].conversation_id].amount = 5
        /\ users[REGISTERED_USER] = [tier |-> ENTERPRISE_TIER, api_key |-> REGISTERED_KEY]
====
